---- MODULE Spec2Model ----
(***************************************************************************)
(* Tableau -> Fabric SQL converter.                                        *)
(*                                                                         *)
(* SQL text is a sequence of lexical tokens: a token is a maximal word     *)
(* (letters, digits, underscore), a quoted literal whose content holds no  *)
(* quote, comma or parenthesis, or one punctuation / whitespace character. *)
(* Every regular expression of the source either names whole words (with   *)
(* \b or a following \s*\( ) or single characters, so its matches on the   *)
(* characters and on the tokens coincide.  Two word tokens side by side    *)
(* read as one longer word: the \b tests below look at the neighbours.     *)
(***************************************************************************)
EXTENDS Integers, Sequences, FiniteSets, TLC

VARIABLES
  converter,     \* the object under test: "main" / "ai" SQLConverter, or "remap"
  metrics,  \* SQLConverter.metrics
  arg,      \* the argument of the last call
  fault,    \* the step of the last call that raised, "none" when none did
  ret       \* what the last call handed to its caller

vars == <<converter, metrics, arg, fault, ret>>

---------------------------------------------------------------------------
(* Tokens *)

\* a local name: Body with v for its argument
With(v, Body(_)) == Body(v)

WS == {" ", "\n"}

Punct == {" ", "\n", "(", ")", ",", "[", "]", "{", "}", "//", "--", ";",
          "=", ">", "-", ":", "*", "."}

Literals == {"'-'", "'x'"}

NumberToks == {"0", "1", "2", "01", "20"}

IsWord(tok) == tok \notin Punct /\ tok \notin Literals

\* re.IGNORECASE: the lower-case spellings the inputs use, folded to upper case
UpperOf == ("median" :> "MEDIAN") @@ ("fixed" :> "FIXED") @@ ("log" :> "LOG")
           @@ ("int" :> "INT") @@ ("split" :> "SPLIT") @@ ("true" :> "TRUE")
           @@ ("if" :> "IF") @@ ("now" :> "NOW") @@ ("a" :> "A")

Upper(tok) == IF tok \in DOMAIN UpperOf THEN UpperOf[tok] ELSE tok

\* \b in front of the word token t[i]
Boundary(t, i) == i = 1 \/ ~IsWord(t[i - 1])

\* \b behind the word token t[i]
EndBoundary(t, i) == i = Len(t) \/ ~IsWord(t[i + 1])

\* \s* from position i: the first position that holds no whitespace
SkipWs(t, i) ==
  CHOOSE j \in i..(Len(t) + 1) :
    /\ \A k \in i..(j - 1) : t[k] \in WS
    /\ (j = Len(t) + 1 \/ t[j] \notin WS)

\* the first position >= i holding a token of S, 0 when there is none
FindTok(t, i, S) ==
  IF \E j \in i..Len(t) : t[j] \in S
  THEN CHOOSE j \in i..Len(t) : t[j] \in S /\ \A k \in i..(j - 1) : t[k] \notin S
  ELSE 0

TokAt(t, i) == IF i >= 1 /\ i <= Len(t) THEN t[i] ELSE ""

Slice(t, a, b) == IF a > b THEN <<>> ELSE SubSeq(t, a, b)

\* str.strip()
Strip(t) ==
  IF \A k \in 1..Len(t) : t[k] \in WS THEN <<>>
  ELSE LET a == CHOOSE j \in 1..Len(t) : t[j] \notin WS /\ \A k \in 1..(j - 1) : t[k] \in WS
           b == CHOOSE j \in 1..Len(t) : t[j] \notin WS /\ \A k \in (j + 1)..Len(t) : t[k] \in WS
       IN SubSeq(t, a, b)

\* \s*(G+?)\s* between position p (first candidate) and the stop token at c:
\* greedy \s* gives one whitespace back when nothing else is left for G+?
Group(t, p, c) ==
  With(SkipWs(t, p), LAMBDA a :
    IF a >= c THEN <<t[c - 1]>>
    ELSE SubSeq(t, a, CHOOSE j \in a..(c - 1) :
                        t[j] \notin WS /\ \A k \in (j + 1)..(c - 1) : t[k] \in WS))

---------------------------------------------------------------------------
(* The precompiled patterns of RegexRemapper.__init__.  Each operator      *)
(* gives the position where the match that starts at i ends, 0 for none.   *)

\* \bNAME\s*\(
NameParenInsideWords(t, i, name) ==
  IF IsWord(t[i]) /\ Upper(t[i]) = name
  THEN With(SkipWs(t, i + 1), LAMBDA p : IF TokAt(t, p) = "(" THEN p ELSE 0)
  ELSE 0
NameParen(t, i, name) ==
  IF IsWord(t[i]) /\ Upper(t[i]) = name /\ Boundary(t, i)
  THEN With(SkipWs(t, i + 1), LAMBDA p : IF TokAt(t, p) = "(" THEN p ELSE 0)
  ELSE 0

\* \bNAME\s*\(\s*\)
NameEmptyCall(t, i, name) ==
  With(NameParen(t, i, name), LAMBDA p :
    IF p = 0 THEN 0
    ELSE With(SkipWs(t, p + 1), LAMBDA q : IF TokAt(t, q) = ")" THEN q ELSE 0))

\* \bNAME\s*\(\s*([^\)]+?)\s*\)
NameOneArg(t, i, name) ==
  With(NameParen(t, i, name), LAMBDA p :
    IF p = 0 THEN 0
    ELSE With(FindTok(t, p + 1, {")"}), LAMBDA c : IF c > p + 1 THEN c ELSE 0))

\* group 1 of NameOneArg
OneArgGroup(t, i, name) == Group(t, NameParen(t, i, name) + 1, NameOneArg(t, i, name))

\* \bNAME\s*\(\s*([^,]+?)\s*,\s*'([^']*)'   : the position of the literal
NameValueLit(t, i, name) ==
  With(NameParen(t, i, name), LAMBDA p :
    IF p = 0 THEN 0
    ELSE With(FindTok(t, p + 1, {","}), LAMBDA c :
           IF c <= p + 1 THEN 0
           ELSE With(SkipWs(t, c + 1), LAMBDA q :
                  IF TokAt(t, q) \in Literals THEN q ELSE 0)))

\* group 1 of NameValueLit, stripped (m.group(1).strip())
ValueGroup(t, i, name) ==
  With(NameParen(t, i, name), LAMBDA p :
    Strip(Group(t, p + 1, FindTok(t, p + 1, {","}))))

\* \bNAME\s*\(\s*([^,]+?)\s*,\s*'([^']*)'\s*\)
NameValueLitCall(t, i, name) ==
  With(NameValueLit(t, i, name), LAMBDA q :
    IF q = 0 THEN 0
    ELSE With(SkipWs(t, q + 1), LAMBDA r : IF TokAt(t, r) = ")" THEN r ELSE 0))

re_bracket_ident(t, i) ==
  IF t[i] = "["
  THEN With(FindTok(t, i + 1, {"]"}), LAMBDA c : IF c > i + 1 THEN c ELSE 0)
  ELSE 0

re_if(t, i) == NameParen(t, i, "IF")
re_ifnull(t, i) == NameParen(t, i, "IFNULL")
re_true(t, i) == IF IsWord(t[i]) /\ Upper(t[i]) = "TRUE" /\ Boundary(t, i) /\ EndBoundary(t, i) THEN i ELSE 0
re_false(t, i) == IF IsWord(t[i]) /\ Upper(t[i]) = "FALSE" /\ Boundary(t, i) /\ EndBoundary(t, i) THEN i ELSE 0
re_comment_slashes(t, i) == IF t[i] = "//" THEN i ELSE 0
re_now(t, i) == NameEmptyCall(t, i, "NOW")
re_today(t, i) == NameEmptyCall(t, i, "TODAY")
re_length(t, i) == NameParen(t, i, "LENGTH")
re_substr(t, i) == NameParen(t, i, "SUBSTR")
re_makedate(t, i) == NameParen(t, i, "MAKEDATE")
re_makedatetime(t, i) == NameParen(t, i, "MAKEDATETIME")
re_ln(t, i) == NameParen(t, i, "LN")
re_log(t, i) == NameParen(t, i, "LOG")
re_int(t, i) == NameOneArg(t, i, "INT")
re_str(t, i) == NameOneArg(t, i, "STR")
re_float(t, i) == NameOneArg(t, i, "FLOAT")
re_date_cast(t, i) == NameOneArg(t, i, "DATE")

\* ...'([^']*)'\s*,\s*(\d+)\s*\)
re_split(t, i) ==
  With(NameValueLit(t, i, "SPLIT"), LAMBDA q :
    IF q = 0 THEN 0
    ELSE With(SkipWs(t, q + 1), LAMBDA r :
           IF TokAt(t, r) # "," THEN 0
           ELSE With(SkipWs(t, r + 1), LAMBDA u :
                  IF TokAt(t, u) \notin NumberToks THEN 0
                  ELSE With(SkipWs(t, u + 1), LAMBDA v :
                         IF TokAt(t, v) = ")" THEN v ELSE 0))))

re_startswith(t, i) == NameValueLitCall(t, i, "STARTSWITH")
re_endswith(t, i) == NameValueLitCall(t, i, "ENDSWITH")
re_find(t, i) == NameValueLitCall(t, i, "FIND")

\* ...'([^']*)'\s*(?:,\s*[^\)]*)?\)
re_contains(t, i) ==
  With(NameValueLit(t, i, "CONTAINS"), LAMBDA q :
    IF q = 0 THEN 0
    ELSE With(SkipWs(t, q + 1), LAMBDA r :
           IF TokAt(t, r) = ")" THEN r
           ELSE IF TokAt(t, r) = "," THEN FindTok(t, r + 1, {")"})
           ELSE 0))

LodWords == {"FIXED", "INCLUDE", "EXCLUDE"}

\* \{\s*(FIXED|INCLUDE|EXCLUDE)\b
re_lod(t, i) ==
  IF t[i] = "{"
  THEN With(SkipWs(t, i + 1), LAMBDA j :
         IF j <= Len(t) /\ IsWord(t[j]) /\ Upper(t[j]) \in LodWords /\ EndBoundary(t, j)
         THEN j ELSE 0)
  ELSE 0

re_median(t, i) == NameOneArg(t, i, "MEDIAN")

---------------------------------------------------------------------------
(* re.sub: leftmost, non-overlapping matches, replaced left to right *)

varchar_default_len == "20"

Rules == {"re_comment_slashes", "re_true", "re_false", "re_if", "re_ifnull",
          "re_now", "re_today", "re_length", "re_substr", "re_makedate",
          "re_makedatetime", "re_ln", "re_log", "re_bracket_ident", "re_int",
          "re_str", "re_float", "re_date_cast", "re_split", "re_startswith",
          "re_endswith", "re_contains", "re_find", "re_lod", "re_median"}

MatchEnd(rule, t, i) ==
  CASE rule = "re_comment_slashes" -> re_comment_slashes(t, i)
    [] rule = "re_true" -> re_true(t, i)
    [] rule = "re_false" -> re_false(t, i)
    [] rule = "re_if" -> re_if(t, i)
    [] rule = "re_ifnull" -> re_ifnull(t, i)
    [] rule = "re_now" -> re_now(t, i)
    [] rule = "re_today" -> re_today(t, i)
    [] rule = "re_length" -> re_length(t, i)
    [] rule = "re_substr" -> re_substr(t, i)
    [] rule = "re_makedate" -> re_makedate(t, i)
    [] rule = "re_makedatetime" -> re_makedatetime(t, i)
    [] rule = "re_ln" -> re_ln(t, i)
    [] rule = "re_log" -> re_log(t, i)
    [] rule = "re_bracket_ident" -> re_bracket_ident(t, i)
    [] rule = "re_int" -> re_int(t, i)
    [] rule = "re_str" -> re_str(t, i)
    [] rule = "re_float" -> re_float(t, i)
    [] rule = "re_date_cast" -> re_date_cast(t, i)
    [] rule = "re_split" -> re_split(t, i)
    [] rule = "re_startswith" -> re_startswith(t, i)
    [] rule = "re_endswith" -> re_endswith(t, i)
    [] rule = "re_contains" -> re_contains(t, i)
    [] rule = "re_find" -> re_find(t, i)
    [] rule = "re_lod" -> re_lod(t, i)
    [] rule = "re_median" -> re_median(t, i)
    [] rule = "ai_now" -> NameParen(t, i, "NOW")
    [] rule = "ai_zn" -> NameParen(t, i, "ZN")
    [] rule = "ai_startswith" -> NameParen(t, i, "STARTSWITH")
    [] rule = "ai_endswith" -> NameParen(t, i, "ENDSWITH")
    [] rule = "ai_contains" -> NameParen(t, i, "CONTAINS")


\* the starts of the matches re.sub / re.finditer visits, in order
RECURSIVE MatchesFrom(_, _, _)
MatchesFrom(rule, t, i) ==
  IF i > Len(t) THEN <<>>
  ELSE With(MatchEnd(rule, t, i), LAMBDA e :
         IF e = 0 THEN MatchesFrom(rule, t, i + 1)
         ELSE <<i>> \o MatchesFrom(rule, t, e + 1))

Matches(rule, t) == MatchesFrom(rule, t, 1)

\* pattern.search(t)
Search(rule, t) == Matches(rule, t) # <<>>

Cast(g, type) == <<"CAST", "(">> \o g \o <<" ", "AS", " ">> \o type \o <<")">>

\* the literal and the index of a SPLIT match starting at i
SplitDelim(t, i) == t[NameValueLit(t, i, "SPLIT")]
SplitIdx(t, i) == t[SkipWs(t, SkipWs(t, NameValueLit(t, i, "SPLIT") + 1) + 1)]

\* _split_rewrite: the text returned for the match starting at i
SplitFirst(s, delim) ==
  <<"SUBSTRING", "(">> \o s \o <<",", " ", "1", ",", " ", "CHARINDEX", "(", delim, ",", " ">>
  \o s \o <<")", " ", "-", " ", "1", ")">>

split_rewrite(t, i) ==
  IF SplitIdx(t, i) = "1"
  THEN SplitFirst(ValueGroup(t, i, "SPLIT"), SplitDelim(t, i))
  ELSE SubSeq(t, i, re_split(t, i))

startswith_text(s, prefix) ==
  <<"CHARINDEX", "(", prefix, ",", " ">> \o s \o <<")", " ", "=", " ", "1">>

startswith_rewrite(t, i) == startswith_text(ValueGroup(t, i, "STARTSWITH"), t[NameValueLit(t, i, "STARTSWITH")])

endswith_text(s, suffix) ==
  <<"RIGHT", "(">> \o s \o <<",", " ", "LEN", "(", suffix, ")", ")", " ", "=", " ", suffix>>

endswith_rewrite(t, i) == endswith_text(ValueGroup(t, i, "ENDSWITH"), t[NameValueLit(t, i, "ENDSWITH")])

contains_text(s, needle) ==
  <<"CHARINDEX", "(", needle, ",", " ">> \o s \o <<")", " ", ">", " ", "0">>

contains_rewrite(t, i) == contains_text(ValueGroup(t, i, "CONTAINS"), t[NameValueLit(t, i, "CONTAINS")])

find_text(s, needle) ==
  <<"CHARINDEX", "(", needle, ",", " ">> \o s \o <<")">>

find_rewrite(t, i) == find_text(ValueGroup(t, i, "FIND"), t[NameValueLit(t, i, "FIND")])

\* the replacement of the match of rule that starts at i
Replacement(rule, t, i) ==
  CASE rule = "re_comment_slashes" -> <<"--">>
    [] rule = "re_true" -> <<"1">>
    [] rule = "re_false" -> <<"0">>
    [] rule = "re_if" -> <<"IIF", "(">>
    [] rule = "re_ifnull" -> <<"ISNULL", "(">>
    [] rule = "re_now" -> <<"GETDATE", "(", ")">>
    [] rule = "re_today" -> Cast(<<"GETDATE", "(", ")">>, <<"DATE">>)
    [] rule = "re_length" -> <<"LEN", "(">>
    [] rule = "re_substr" -> <<"SUBSTRING", "(">>
    [] rule = "re_makedate" -> <<"DATEFROMPARTS", "(">>
    [] rule = "re_makedatetime" -> <<"DATETIMEFROMPARTS", "(">>
    [] rule = "re_ln" -> <<"LOG", "(">>
    [] rule = "re_log" -> <<"LOG10", "(">>
    [] rule = "re_bracket_ident" -> SubSeq(t, i + 1, re_bracket_ident(t, i) - 1)
    [] rule = "re_int" -> Cast(OneArgGroup(t, i, "INT"), <<"INT">>)
    [] rule = "re_str" -> Cast(OneArgGroup(t, i, "STR"), <<"VARCHAR", "(", varchar_default_len, ")">>)
    [] rule = "re_float" -> Cast(OneArgGroup(t, i, "FLOAT"), <<"FLOAT">>)
    [] rule = "re_date_cast" -> Cast(OneArgGroup(t, i, "DATE"), <<"DATE">>)
    [] rule = "re_split" -> split_rewrite(t, i)
    [] rule = "re_startswith" -> startswith_rewrite(t, i)
    [] rule = "re_endswith" -> endswith_rewrite(t, i)
    [] rule = "re_contains" -> contains_rewrite(t, i)
    [] rule = "re_find" -> find_rewrite(t, i)
    [] rule = "ai_now" -> <<"GETDATE", "(">>
    [] rule = "ai_zn" -> <<"ISNULL", "(">>

RECURSIVE SubFrom(_, _, _)
SubFrom(rule, t, i) ==
  IF i > Len(t) THEN <<>>
  ELSE With(MatchEnd(rule, t, i), LAMBDA e :
         IF e = 0 THEN <<t[i]>> \o SubFrom(rule, t, i + 1)
         ELSE Replacement(rule, t, i) \o SubFrom(rule, t, e + 1))

\* pattern.sub(repl, t)
Sub(rule, t) == SubFrom(rule, t, 1)

---------------------------------------------------------------------------
(* Flags: <<line_number, reason>>.  A reason is the sequence of the string *)
(* parts the source concatenates (an f-string is its parts in order).      *)

SplitReason == <<"SPLIT with index != 1 requires manual rewrite">>
MedianReason == <<"MEDIAN requires PERCENTILE_CONT(0.5) WITHIN GROUP rewrite">>
LodReason == <<"Tableau LOD expressions are not supported">>

\* sql.split('\n')
RECURSIVE SplitLines(_)
SplitLines(t) ==
  LET n == FindTok(t, 1, {"\n"}) IN
  IF n = 0 THEN <<t>>
  ELSE <<Slice(t, 1, n - 1)>> \o SplitLines(Slice(t, n + 1, Len(t)))

\* tokens u found at position a of t, under re.IGNORECASE
TextAt(t, a, u) ==
  /\ a + Len(u) - 1 <= Len(t)
  /\ \A k \in 1..Len(u) : Upper(t[a + k - 1]) = Upper(u[k])

\* \bSPLIT\s*\(\s*<s>\s*,\s*'<delim>'\s*,\s*<idx>\s*\)  matched at i
SplitPatternAt(t, i, s, delim, idx) ==
  With(NameParen(t, i, "SPLIT"), LAMBDA p :
    /\ p # 0
    /\ With(SkipWs(t, p + 1), LAMBDA a :
         /\ TextAt(t, a, s)
         /\ With(SkipWs(t, a + Len(s)), LAMBDA c :
              /\ TokAt(t, c) = ","
              /\ With(SkipWs(t, c + 1), LAMBDA q :
                   /\ Upper(TokAt(t, q)) = Upper(delim)
                   /\ With(SkipWs(t, q + 1), LAMBDA r :
                        /\ TokAt(t, r) = ","
                        /\ With(SkipWs(t, r + 1), LAMBDA u :
                             /\ TokAt(t, u) = idx
                             /\ TokAt(t, SkipWs(t, u + 1)) = ")"))))))

\* rx.search(line) for the three patterns remap hands to _flag_lines
PatternIn(pat, line) ==
  CASE pat.kind = "median" -> \E i \in 1..Len(line) : NameParen(line, i, "MEDIAN") # 0
    [] pat.kind = "lod" -> \E i \in 1..Len(line) : re_lod(line, i) # 0
    [] pat.kind = "split" ->
         \E i \in 1..Len(line) : SplitPatternAt(line, i, pat.s, pat.delim, pat.idx)

RECURSIVE FlagFrom(_, _, _, _)
FlagFrom(lines, n, pat, reason) ==
  IF n > Len(lines) THEN <<>>
  ELSE (IF PatternIn(pat, lines[n]) THEN <<(<<n, reason>>)>> ELSE <<>>)
       \o FlagFrom(lines, n + 1, pat, reason)

\* _flag_lines: the flags it appends
flag_lines(sql, pat, reason) == FlagFrom(SplitLines(sql), 1, pat, reason)

\* the flags the _split_rewrite callbacks append while re_split.sub runs on sql
RECURSIVE SplitFlagsOf(_, _, _)
SplitFlagsOf(sql, ms, k) ==
  IF k > Len(ms) THEN <<>>
  ELSE (IF SplitIdx(sql, ms[k]) = "1" THEN <<>>
        ELSE flag_lines(sql,
                        [kind |-> "split", s |-> ValueGroup(sql, ms[k], "SPLIT"),
                         delim |-> SplitDelim(sql, ms[k]), idx |-> SplitIdx(sql, ms[k])],
                        SplitReason))
       \o SplitFlagsOf(sql, ms, k + 1)

SplitFlags(sql) == SplitFlagsOf(sql, Matches("re_split", sql), 1)

---------------------------------------------------------------------------
(* RegexRemapper.remap *)

\* the rules remap applies before SPLIT, and those after it, in source order
CastOrder ==
  <<"re_comment_slashes", "re_true", "re_false", "re_if", "re_ifnull", "re_now",
    "re_today", "re_length", "re_substr", "re_makedate", "re_makedatetime",
    "re_ln", "re_log", "re_bracket_ident", "re_int", "re_str", "re_float",
    "re_date_cast">>
PredicateOrder ==
  <<"re_split", "re_startswith", "re_endswith", "re_contains", "re_find">>

\* sql = pattern.sub(repl, sql), one rule after the other
RECURSIVE SubAll(_, _, _)
SubAll(order, k, t) ==
  IF k > Len(order) THEN t ELSE SubAll(order, k + 1, Sub(order[k], t))

\* the MEDIAN and LOD blocks: search the text, then flag line by line
SearchFlags(out, rule, kind, reason) ==
  IF Search(rule, out) THEN flag_lines(out, [kind |-> kind], reason) ELSE <<>>

LateOrder ==
  <<[rule |-> "re_median", kind |-> "median", reason |-> MedianReason],
    [rule |-> "re_lod", kind |-> "lod", reason |-> LodReason]>>

RECURSIVE LateFlags(_, _)
LateFlags(out, k) ==
  IF k > Len(LateOrder) THEN <<>>
  ELSE SearchFlags(out, LateOrder[k].rule, LateOrder[k].kind, LateOrder[k].reason)
       \o LateFlags(out, k + 1)

remap(sql) ==
  IF sql = <<>> THEN [text |-> sql, flags |-> <<>>]
  ELSE With(SubAll(CastOrder, 1, sql), LAMBDA pre :
         With(SubAll(PredicateOrder, 1, pre), LAMBDA out :
           [text |-> out, flags |-> SplitFlags(pre) \o LateFlags(out, 1)]))

apply_regex_remapping(sql) == remap(sql)

---------------------------------------------------------------------------
(* ConversionMetrics *)

Categories == {"DATE", "STRING", "AGGREGATE", "LOGICAL", "MATHEMATICAL", "OTHER"}

\* ConversionMetrics.__init__
ConversionMetrics ==
  [total_statements |-> 0,
   successful_conversions |-> 0,
   flagged_statements |-> 0,
   function_conversions |-> [c \in Categories |-> 0],
   flagged_lines |-> <<>>,
   unsupported_functions |-> {}]

add_successful_conversion(m) ==
  [m EXCEPT !.successful_conversions = @ + 1]

add_flagged_statement(m, line_number, reason) ==
  [m EXCEPT !.flagged_statements = @ + 1,
            !.flagged_lines = Append(@, <<line_number, reason>>)]

add_function_conversion(m, function_type) ==
  IF function_type \in Categories
  THEN [m EXCEPT !.function_conversions[function_type] = @ + 1]
  ELSE [m EXCEPT !.function_conversions["OTHER"] = @ + 1]

add_unsupported_function(m, function_name) ==
  [m EXCEPT !.unsupported_functions = @ \cup {function_name}]

\* A float is the fraction it stands for, in lowest terms: [num, den], den > 0
RECURSIVE Gcd(_, _)
Gcd(a, b) == IF b = 0 THEN a ELSE Gcd(b, a % b)

Ratio(n, d) == IF n = 0 THEN [num |-> 0, den |-> 1] ELSE [num |-> n \div Gcd(n, d), den |-> d \div Gcd(n, d)]

\* x * k
Times(x, k) == Ratio(x.num * k, x.den)

\* (self.successful_conversions // self.total_statements) * 100
GetSuccessRateWholeQuotient(m) ==
  IF m.total_statements = 0 THEN Ratio(0, 1)
  ELSE Times(Ratio(m.successful_conversions \div m.total_statements, 1), 100)
get_success_rate(m) ==
  IF m.total_statements = 0 THEN Ratio(0, 1)
  ELSE Times(Ratio(m.successful_conversions, m.total_statements), 100)

to_dict(m) ==
  [total_statements |-> m.total_statements,
   successful_conversions |-> m.successful_conversions,
   flagged_statements |-> m.flagged_statements,
   success_rate |-> get_success_rate(m),
   function_conversions |-> m.function_conversions,
   flagged_lines |-> m.flagged_lines,
   unsupported_functions |-> m.unsupported_functions]

\* for (ln, reason) in flags: self.metrics.add_flagged_statement(ln, reason)
RECURSIVE AddFlags(_, _, _)
AddFlags(m, flags, k) ==
  IF k > Len(flags) THEN m
  ELSE AddFlags(add_flagged_statement(m, flags[k][1], flags[k][2]), flags, k + 1)

---------------------------------------------------------------------------
(* Arguments of convert_query.  A str argument is its token sequence; the  *)
(* other values a caller can pass are None and a number.                   *)

StrArg(t) == [type |-> "str", text |-> t]
NoneArg == [type |-> "None", text |-> <<>>]
IntArg == [type |-> "int", text |-> <<>>]

\* not tableau_query or not isinstance(tableau_query, str)
Rejected(q) == q.type # "str" \/ q.text = <<>>

\* Faults an internal step can raise (the regex engine and sqlparse are
\* libraries: resource exhaustion, recursion depth, internal errors).
\* "none": no step raises; otherwise the step that raises.
MainFaults == {"none", "remap", "parse", "format"}
AiFaults == {"none", "preprocess", "parse", "convert", "format", "attribute"}

\* f"Conversion error: {str(e)}"
ErrorMsg(e) == <<"Conversion error: ", e>>

---------------------------------------------------------------------------
(* Inputs *)

MaxParts == 2
MaxPieces == 4

RECURSIVE Flatten(_, _)
Flatten(f, k) == IF k = 0 THEN <<>> ELSE Flatten(f, k - 1) \o f[k]

\* the texts made of 1..n pieces
Texts(pieces, n) == UNION {{Flatten(f, k) : f \in [1..k -> pieces]} : k \in 1..n}

QueryPieces ==
  { <<"SELECT", " ">>, <<"UPPER", "(", "name">>, <<")">>, <<" ", "FROM", " ", "t">>,
    <<"CUSTOM_FUNC", "(", "x", ")">>, <<"MEDIAN", "(", "x", ")">>, <<"NOW", "(", ")">>,
    <<"SPLIT", "(", "a", ",", "'-'", ",", "2", ")">>, <<"INT", "(", "x", ")">>,
    <<"\n">>, <<" ">> }

Queries == Texts(QueryPieces, MaxParts)

Args == {StrArg(t) : t \in Queries} \cup {StrArg(<<>>), NoneArg, IntArg}

Accepted == {q \in Args : ~Rejected(q)}

CastPieces == { <<"INT", "(">>, <<"DATE", "(">>, <<"LEN", "(", "x", ")">>, <<"x">>, <<")">>, <<" ">> }
SplitPieces == { <<"SPLIT", "(", "a", ",">>, <<"'-'", ",">>, <<"1", ")">>, <<"2", ")">>, <<"\n">>, <<" ">> }
MedianPieces == { <<"MEDIAN">>, <<"median">>, <<"(">>, <<"x", ")">>, <<"TRUE", ")">>, <<"\n">> }
LodPieces == { <<"{">>, <<"FIXED">>, <<"fixed">>, <<"[", "a", "]">>, <<"}">>, <<"\n">>, <<" ">> }

\* whole calls, MaxCalls of them in a text
MaxCalls == 2

PredicatePieces ==
  { <<"STARTSWITH", "(", "a", ",", " ", "'x'", ")">>, <<"STARTSWITH", "(", "a", ",", " ", "b", ")">>,
    <<"ENDSWITH", "(", "a", ",", " ", "b", ")">>, <<"CONTAINS", "(", "a", ",", " ", "b", ")">>,
    <<"FIND", "(", "a", ",", " ", "b", ")">>, <<"FIND", "(", "a", ",", " ", "'x'", ")">>, <<" ">> }
NormalPieces ==
  { <<"[", "LN", "]">>, <<"(", "x", ")">>, <<"LN", "(", "[", "x", "]", ")">>, <<"//">>,
    <<"TRUE">>, <<" ">> }
TablePieces ==
  { <<"NOW", "(", ")">>, <<"MAKEDATE", "(", "x", ")">>, <<"MAKEDATETIME", "(", "x", ")">>,
    <<"LENGTH", "(", "x", ")">>, <<"SUBSTR", "(", "x", ")">>, <<"IFNULL", "(", "x", ")">>,
    <<"ZN", "(", "x", ")">>, <<"LN", "(", "x", ")">>, <<"LOG", "(", "x", ")">>, <<" ">> }
NestedPieces ==
  { <<"INT", "(", "INT", "(", "x", ")", ")">>, <<"LN", "(", "LOG", "(", "x", ")", ")">>,
    <<"LENGTH", "(", "[", "a", "]", ")">>, <<"GETDATE", "(", ")">>, <<"NOW", "(", ")">>,
    <<"IF", "(", "TRUE", ",", "1", ",", "0", ")">>, <<" ">> }

\* texts built from the constructs that remap rewrites without a flag
IdempotentInputs == Texts(NestedPieces, MaxCalls)

RemapInputs ==
  Texts(CastPieces, MaxPieces) \cup Texts(SplitPieces, MaxPieces)
  \cup Texts(MedianPieces, MaxPieces) \cup Texts(LodPieces, MaxPieces)
  \cup Texts(PredicatePieces, MaxCalls) \cup Texts(NormalPieces, MaxCalls)
  \cup Texts(TablePieces, MaxCalls) \cup IdempotentInputs

---------------------------------------------------------------------------
(* sqlparse, as src/main uses it: parse splits the text into statements    *)
(* and format(reindent=True, keyword_case='upper') upper-cases keywords,   *)
(* collapses runs of whitespace and starts FROM / WHERE on a new line.     *)

KeywordOf == ("select" :> "SELECT") @@ ("from" :> "FROM") @@ ("as" :> "AS")
             @@ ("where" :> "WHERE")

ClauseKeywords == {"FROM", "WHERE"}

keyword_case(tok) == IF tok \in DOMAIN KeywordOf THEN KeywordOf[tok] ELSE tok

RECURSIVE Reindent(_, _)
Reindent(t, i) ==
  IF i > Len(t) THEN <<>>
  ELSE IF t[i] \in WS
       THEN LET j == SkipWs(t, i) IN
            IF j > Len(t) THEN <<>>
            ELSE IF keyword_case(t[j]) \in ClauseKeywords /\ EndBoundary(t, j)
                 THEN <<"\n">> \o Reindent(t, j)
                 ELSE <<" ">> \o Reindent(t, j)
       ELSE <<(IF Boundary(t, i) /\ EndBoundary(t, i) THEN keyword_case(t[i]) ELSE t[i])>>
            \o Reindent(t, i + 1)

sqlparse_format(t) == Reindent(t, SkipWs(t, 1))

RECURSIVE JoinLines(_)
JoinLines(ss) ==
  IF Len(ss) = 0 THEN <<>>
  ELSE IF Len(ss) = 1 THEN ss[1]
  ELSE ss[1] \o <<"\n">> \o JoinLines(Tail(ss))

\* sqlparse.parse: one statement per ';' (kept at the end of its statement)
RECURSIVE sqlparse_parse(_)
sqlparse_parse(t) ==
  IF \A k \in 1..Len(t) : t[k] \in WS THEN <<>>
  ELSE LET n == FindTok(t, 1, {";"}) IN
       IF n = 0 THEN <<t>>
       ELSE <<SubSeq(t, 1, n)>> \o sqlparse_parse(Slice(t, n + 1, Len(t)))

RECURSIVE FormatAll(_)
FormatAll(stmts) ==
  IF Len(stmts) = 0 THEN <<>>
  ELSE <<sqlparse_format(stmts[1])>> \o FormatAll(Tail(stmts))

---------------------------------------------------------------------------
(* src/main/components/sql_parser.py : SQLConverter.convert_query          *)
(* A result is what the caller sees and what the converter keeps:          *)
(*   outcome  "returned" | "raised"                                        *)
(*   text, metrics, flags   the returned three-tuple                       *)
(*   self     self.metrics after the call                                  *)
(*   fresh    the returned ledger was allocated by this call               *)

Returned(text, m, flags, isfresh) ==
  [outcome |-> "returned", text |-> text, metrics |-> m, flags |-> flags,
   self |-> m, fresh |-> isfresh]

Raised(m) ==
  [outcome |-> "raised", text |-> <<>>, metrics |-> m, flags |-> <<>>,
   self |-> m, fresh |-> TRUE]

\* lines 85-86: return "", self.metrics, []
EarlyReturn(self) == Returned(<<>>, self, <<>>, FALSE)

\* lines 88-90
ResetMetrics == [ConversionMetrics EXCEPT !.total_statements = 1]

\* lines 120-123: except Exception as e
MainHandlerReraises(q, m, e) == Raised(m)
MainHandler(q, m, e) ==
  Returned(q.text, add_flagged_statement(m, 0, ErrorMsg(e)), <<<<0, ErrorMsg(e)>>>>, TRUE)

\* lines 103-111: formatting; a failure of sqlparse keeps the remapped text
MainFormat(remapped_sql, e) ==
  IF e \in {"parse", "format"} THEN remapped_sql
  ELSE With(sqlparse_parse(remapped_sql), LAMBDA parsed :
         IF Len(parsed) > 0 THEN JoinLines(FormatAll(parsed)) ELSE remapped_sql)

\* lines 113-115
MainSuccessAlways(m) == add_successful_conversion(m)
MainSuccess(m) ==
  IF m.flagged_lines = <<>> /\ m.unsupported_functions = {}
  THEN add_successful_conversion(m) ELSE m

\* lines 92-118: the try block when nothing raises before the formatting
MainBody(q, e) ==
  With(apply_regex_remapping(q.text), LAMBDA r :
    With(MainSuccess(AddFlags(ResetMetrics, r.flags, 1)), LAMBDA m2 :
      Returned(MainFormat(r.text, e), m2, m2.flagged_lines, TRUE)))

\* lines 88-123: the call past the guard
MainTry(q, e) ==
  IF e = "remap" THEN MainHandler(q, ResetMetrics, e) ELSE MainBody(q, e)

\* what the call past the guard does depends on its argument and on the step
\* that raises only: one entry per call
MainRuns == [q \in Accepted, e \in MainFaults |-> MainTry(q, e)]

main_convert_query(self, q, e) ==
  IF Rejected(q) THEN EarlyReturn(self) ELSE MainRuns[q, e]

---------------------------------------------------------------------------
(* TableauFabricMappings (sql_mappings.py) *)

_BASE_FUNCTION_MAPPINGS ==
  ("DATEADD" :> <<"DATEADD">>) @@ ("DATEDIFF" :> <<"DATEDIFF">>)
  @@ ("DATEPART" :> <<"DATEPART">>) @@ ("DATENAME" :> <<"DATENAME">>)
  @@ ("NOW" :> <<"GETDATE">>)
  @@ ("TODAY" :> <<"CAST", "(", "GETDATE", "(", ")", " ", "AS", " ", "DATE", ")">>)
  @@ ("YEAR" :> <<"YEAR">>) @@ ("MONTH" :> <<"MONTH">>) @@ ("DAY" :> <<"DAY">>)
  @@ ("MAKEDATE" :> <<"DATEFROMPARTS">>) @@ ("MAKEDATETIME" :> <<"DATETIMEFROMPARTS">>)
  @@ ("LEN" :> <<"LEN">>) @@ ("LENGTH" :> <<"LEN">>) @@ ("SUBSTR" :> <<"SUBSTRING">>)
  @@ ("CONTAINS" :> <<"CHARINDEX">>) @@ ("LEFT" :> <<"LEFT">>) @@ ("RIGHT" :> <<"RIGHT">>)
  @@ ("TRIM" :> <<"TRIM">>) @@ ("LTRIM" :> <<"LTRIM">>) @@ ("RTRIM" :> <<"RTRIM">>)
  @@ ("UPPER" :> <<"UPPER">>) @@ ("LOWER" :> <<"LOWER">>) @@ ("REPLACE" :> <<"REPLACE">>)
  @@ ("SPLIT" :> <<"STRING_SPLIT">>) @@ ("FIND" :> <<"CHARINDEX">>)
  @@ ("STARTSWITH" :> <<"CHARINDEX">>) @@ ("ENDSWITH" :> <<"CHARINDEX">>)
  @@ ("SUM" :> <<"SUM">>) @@ ("AVG" :> <<"AVG">>) @@ ("COUNT" :> <<"COUNT">>)
  @@ ("MIN" :> <<"MIN">>) @@ ("MAX" :> <<"MAX">>) @@ ("STDEV" :> <<"STDEV">>)
  @@ ("STDEVP" :> <<"STDEVP">>) @@ ("VAR" :> <<"VAR">>) @@ ("VARP" :> <<"VARP">>)
  @@ ("MEDIAN" :> <<"PERCENTILE_CONT", "(", "0.5", ")">>)
  @@ ("IF" :> <<"IIF">>) @@ ("IFNULL" :> <<"ISNULL">>) @@ ("ISNULL" :> <<"ISNULL">>)
  @@ ("ZN" :> <<"ISNULL">>)
  @@ ("STR" :> <<"CAST">>) @@ ("INT" :> <<"CAST">>) @@ ("FLOAT" :> <<"CAST">>)
  @@ ("DATE" :> <<"CAST">>)
  @@ ("ABS" :> <<"ABS">>) @@ ("ROUND" :> <<"ROUND">>) @@ ("CEILING" :> <<"CEILING">>)
  @@ ("FLOOR" :> <<"FLOOR">>) @@ ("SQRT" :> <<"SQRT">>) @@ ("POWER" :> <<"POWER">>)
  @@ ("EXP" :> <<"EXP">>) @@ ("LN" :> <<"LOG">>) @@ ("LOG" :> <<"LOG10">>)

special_handling_functions ==
  {"MEDIAN", "PERCENTILE_CONT", "CONTAINS", "STARTSWITH", "ENDSWITH", "IF",
   "TODAY", "STR", "INT", "FLOAT", "DATE"}

is_mapped_function(function_name) == Upper(function_name) \in DOMAIN _BASE_FUNCTION_MAPPINGS

\* Python's None as a looked-up value: no value of the table is empty
None == <<>>

\* self.function_mappings.get(tableau_function.upper())
get_fabric_function(tableau_function) ==
  IF Upper(tableau_function) \in DOMAIN _BASE_FUNCTION_MAPPINGS
  THEN _BASE_FUNCTION_MAPPINGS[Upper(tableau_function)] ELSE None

requires_special_handling(function_name) == Upper(function_name) \in special_handling_functions

---------------------------------------------------------------------------
(* src/AI_Base/components/sql_parser.py : the regex pre-pass *)

StartswithReason == <<"STARTSWITH requires manual rewrite (use CHARINDEX(...) = 1 or LIKE)">>
EndswithReason == <<"ENDSWITH requires manual rewrite (use RIGHT(...) or LIKE %suffix)">>
ContainsReason == <<"CONTAINS requires manual review (consider CHARINDEX(...) > 0)">>
AiLodReason == <<"LOD expression {FIXED/INCLUDE/EXCLUDE} not supported">>

\* _replace_split: the flags of the matches whose index is not 1
RECURSIVE AiSplitFlags(_, _, _, _)
AiSplitFlags(m, t, ms, k) ==
  IF k > Len(ms) THEN m
  ELSE AiSplitFlags(IF SplitIdx(t, ms[k]) = "1" THEN m
                    ELSE add_flagged_statement(m, 0, SplitReason),
                    t, ms, k + 1)

\* the rewrites of the pre-pass up to SPLIT, in source order; a rewrite with a
\* category is counted once when its pattern is found
PrepassOrder ==
  <<[rule |-> "re_if", category |-> ""], [rule |-> "re_ifnull", category |-> ""],
    [rule |-> "re_true", category |-> ""], [rule |-> "re_false", category |-> ""],
    [rule |-> "re_comment_slashes", category |-> ""],
    [rule |-> "ai_now", category |-> "DATE"],
    [rule |-> "re_substr", category |-> "STRING"],
    [rule |-> "re_length", category |-> "STRING"],
    [rule |-> "re_makedate", category |-> "DATE"],
    [rule |-> "re_makedatetime", category |-> "DATE"],
    [rule |-> "ai_zn", category |-> "LOGICAL"],
    [rule |-> "re_ln", category |-> "MATHEMATICAL"],
    [rule |-> "re_bracket_ident", category |-> ""],
    [rule |-> "re_int", category |-> ""], [rule |-> "re_str", category |-> ""]>>

\* the patterns the pre-pass only flags
PrepassFlags ==
  <<[rule |-> "ai_startswith", reason |-> StartswithReason, category |-> "STRING"],
    [rule |-> "ai_endswith", reason |-> EndswithReason, category |-> "STRING"],
    [rule |-> "ai_contains", reason |-> ContainsReason, category |-> "STRING"],
    [rule |-> "re_lod", reason |-> AiLodReason, category |-> ""]>>

Count(m, category) == IF category = "" THEN m ELSE add_function_conversion(m, category)

RECURSIVE PrepassFrom(_, _)
PrepassFrom(k, s) ==
  IF k > Len(PrepassOrder) THEN s
  ELSE LET r == PrepassOrder[k].rule IN
       PrepassFrom(k + 1,
         [text |-> Sub(r, s.text),
          m |-> IF Search(r, s.text) THEN Count(s.m, PrepassOrder[k].category) ELSE s.m])

RECURSIVE FlagFound(_, _, _)
FlagFound(k, t, m) ==
  IF k > Len(PrepassFlags) THEN m
  ELSE FlagFound(k + 1, t,
         IF Search(PrepassFlags[k].rule, t)
         THEN Count(add_flagged_statement(m, 0, PrepassFlags[k].reason),
                    PrepassFlags[k].category)
         ELSE m)

\* _preprocess_with_regex: the text and the ledger after it
preprocess_with_regex(query, m0) ==
  With(PrepassFrom(1, [text |-> query, m |-> m0]), LAMBDA s :
    With(Sub("re_split", s.text), LAMBDA q16 :
      [text |-> q16,
       m |-> FlagFound(1, q16, AiSplitFlags(s.m, s.text, Matches("re_split", s.text), 1))]))

---------------------------------------------------------------------------
(* The token tree sqlparse builds, as the converter reads it: a Function   *)
(* is a name followed by a Parenthesis (a matched pair); a Function or     *)
(* Parenthesis is a direct child of its parent unless sqlparse wraps it in *)
(* an IdentifierList, an aliased Identifier, a Comparison, an Operation or *)
(* a Where group.                                                          *)

RECURSIVE ScanClose(_, _, _)
ScanClose(t, k, d) ==
  IF k > Len(t) THEN 0
  ELSE IF t[k] = "(" THEN ScanClose(t, k + 1, d + 1)
  ELSE IF t[k] = ")" THEN (IF d = 0 THEN k ELSE ScanClose(t, k + 1, d - 1))
  ELSE ScanClose(t, k + 1, d)

\* the ")" that closes the "(" at p, 0 when it is not closed
MatchParen(t, p) == ScanClose(t, p + 1, 0)

NotFunctionNames == {"FROM", "AS", "IN", "CASE", "VALUES", "USING", "SELECT", "WHERE"}

\* isinstance(token, Function), the token starting at i
FunctionAt(t, i) ==
  /\ IsWord(t[i]) /\ t[i] \notin NumberToks /\ Boundary(t, i)
  /\ keyword_case(Upper(t[i])) \notin NotFunctionNames
  /\ With(SkipWs(t, i + 1), LAMBDA p : TokAt(t, p) = "(" /\ MatchParen(t, p) # 0)

FunctionEnd(t, i) == MatchParen(t, SkipWs(t, i + 1))

\* the positions of the Function tokens, in document order
Functions(t) == SelectSeq([k \in 1..Len(t) |-> k], LAMBDA k : FunctionAt(t, k))

\* the matched "(" that most closely encloses position i, 0 at top level
EnclosingOpen(t, i) ==
  With({p \in 1..(i - 1) : t[p] = "(" /\ MatchParen(t, p) > i}, LAMBDA opens :
    IF opens = {} THEN 0 ELSE CHOOSE p \in opens : \A r \in opens : r <= p)

\* the "(" at p belongs to a Function token
IsCallParen(t, p) == \E k \in 1..(p - 1) : FunctionAt(t, k) /\ SkipWs(t, k + 1) = p

PrevTok(t, i) ==
  LET js == {j \in 1..(i - 1) : t[j] \notin WS} IN
  IF js = {} THEN "" ELSE t[CHOOSE j \in js : \A r \in js : r <= j]

Operators == {"=", ">", "-", "*", "."}

\* the word at n, standing behind an item, makes the item an aliased
\* Identifier: AS, or a name that is no number, no keyword and no Function
AliasAt(t, n) ==
  /\ t[n] \notin NumberToks
  /\ keyword_case(Upper(t[n])) \notin ClauseKeywords \cup {"SELECT"}
  /\ ~FunctionAt(t, n)

\* the item spanning i..e is no part of a list, alias, comparison, operation or WHERE
LevelPlain(t, i, e) ==
  With(EnclosingOpen(t, i), LAMBDA open :
    With(TokAt(t, SkipWs(t, e + 1)), LAMBDA next :
      /\ ~\E k \in 1..Len(t) : t[k] = "," /\ EnclosingOpen(t, k) = open
      /\ ~\E k \in 1..(i - 1) : keyword_case(Upper(t[k])) = "WHERE"
      /\ PrevTok(t, i) \notin Operators
      /\ next \notin Operators
      /\ (next # "" /\ IsWord(next) => ~AliasAt(t, SkipWs(t, e + 1)))))

\* _convert_token reaches the token at i..e through Parenthesis tokens only
RECURSIVE Reached(_, _, _)
Reached(t, i, e) ==
  /\ LevelPlain(t, i, e)
  /\ With(EnclosingOpen(t, i), LAMBDA open :
       open = 0 \/ (~IsCallParen(t, open) /\ Reached(t, open, MatchParen(t, open))))

\* the Function token at i is handed to _convert_function
Direct(t, i) == FunctionAt(t, i) /\ Reached(t, i, FunctionEnd(t, i))

---------------------------------------------------------------------------
(* _scan_for_functions *)

allowed_fabric ==
  {"IIF", "GETDATE", "DATEFROMPARTS", "DATETIMEFROMPARTS", "LEN", "SUBSTRING",
   "CHARINDEX", "LOG", "LOG10", "ISNULL", "TRIM", "LTRIM", "RTRIM", "YEAR",
   "MONTH", "DAY", "SUM", "AVG", "COUNT", "MIN", "MAX", "STDEV", "STDEVP",
   "VAR", "VARP"}

tableau_only ==
  {"WINDOW_AVG", "RUNNING_SUM", "RUNNING_AVG", "INDEX", "FIRST", "LAST",
   "LOOKUP", "PREVIOUS_VALUE", "FINDNTH", "REGEXP_EXTRACT", "PERCENTILE"}

NotSupported(name) == <<name, " function not supported">>

scan_one(m, func_name) ==
  With(IF ~is_mapped_function(func_name) /\ Upper(func_name) \notin allowed_fabric
       THEN add_flagged_statement(add_unsupported_function(m, func_name), 0,
                                  NotSupported(func_name))
       ELSE m,
       LAMBDA m1 :
         IF Upper(func_name) \in tableau_only
         THEN add_flagged_statement(add_unsupported_function(m1, Upper(func_name)), 0,
                                    NotSupported(Upper(func_name)))
         ELSE m1)

RECURSIVE ScanFrom(_, _, _, _)
ScanFrom(m, t, fs, k) ==
  IF k > Len(fs) THEN m ELSE ScanFrom(scan_one(m, t[fs[k]]), t, fs, k + 1)

scan_for_functions(m, t) == ScanFrom(m, t, Functions(t), 1)

---------------------------------------------------------------------------
(* _convert_token / _convert_function / _convert_special_function *)

function_categories ==
  [DATE |-> {"DATEADD", "DATEDIFF", "DATEPART", "NOW", "TODAY", "YEAR", "MONTH",
             "DAY", "MAKEDATE", "MAKEDATETIME", "DATENAME"},
   STRING |-> {"LEN", "LENGTH", "SUBSTR", "CONTAINS", "LEFT", "RIGHT", "TRIM",
               "UPPER", "LOWER", "REPLACE", "SPLIT", "FIND", "STARTSWITH", "ENDSWITH"},
   AGGREGATE |-> {"SUM", "AVG", "COUNT", "MIN", "MAX", "STDEV", "STDEVP", "VAR",
                  "VARP", "MEDIAN"},
   LOGICAL |-> {"IF", "IFNULL", "ISNULL", "ZN"},
   MATHEMATICAL |-> {"ABS", "ROUND", "CEILING", "FLOOR", "SQRT", "POWER", "EXP",
                     "LN", "LOG"}]

get_function_category(func_name) ==
  IF \E c \in DOMAIN function_categories : func_name \in function_categories[c]
  THEN CHOOSE c \in DOMAIN function_categories : func_name \in function_categories[c]
  ELSE "OTHER"

MedianReview == <<"MEDIAN function requires manual review">>
CastReview(func_name) == <<func_name, " conversion requires manual review">>

\* original_str.replace(func_name, fabric_func, 1): the first token spelled func_name
ReplaceFirst(span, func_name, fabric_func) ==
  LET n == FindTok(span, 1, {func_name}) IN
  IF n = 0 THEN span
  ELSE Slice(span, 1, n - 1) \o fabric_func \o Slice(span, n + 1, Len(span))

\* a fragment: its text (content), is_converted, and the ledger after it
Fragment(text, is_converted, m) == [text |-> text, is_converted |-> is_converted, m |-> m]

convert_special_function(span, func_name, fabric_func, m) ==
  IF func_name = "MEDIAN"
  THEN Fragment(span, FALSE, add_flagged_statement(m, 0, MedianReview))
  ELSE IF func_name = "TODAY" THEN Fragment(fabric_func, TRUE, m)
  ELSE IF func_name \in {"STR", "INT", "FLOAT", "DATE"}
  THEN Fragment(span, FALSE, add_flagged_statement(m, 0, CastReview(func_name)))
  ELSE Fragment(ReplaceFirst(span, func_name, fabric_func), TRUE, m)

\* _convert_function on the Function token t[i..e]
convert_function(t, i, m) ==
  With(SubSeq(t, i, FunctionEnd(t, i)), LAMBDA span :
    With(t[i], LAMBDA func_name :
      IF is_mapped_function(func_name)
      THEN With(add_function_conversion(m, get_function_category(Upper(func_name))), LAMBDA m1 :
             IF requires_special_handling(func_name)
             THEN convert_special_function(span, Upper(func_name),
                                           get_fabric_function(func_name), m1)
             ELSE Fragment(get_fabric_function(func_name) \o Tail(span), TRUE, m1))
      ELSE Fragment(span, FALSE, add_unsupported_function(m, func_name))))

\* SQLFragment.__add__
FragmentAddKeepsLeft(a, b) == Fragment(a.text \o b.text, a.is_converted, b.m)
FragmentAdd(a, b) == Fragment(a.text \o b.text, a.is_converted /\ b.is_converted, b.m)

\* the walk of _convert_statement / _convert_parenthesis over the tokens from i
RECURSIVE ConvertFrom(_, _, _)
ConvertFrom(t, i, acc) ==
  IF i > Len(t) THEN acc
  ELSE IF Direct(t, i)
       THEN ConvertFrom(t, FunctionEnd(t, i) + 1, FragmentAdd(acc, convert_function(t, i, acc.m)))
       ELSE ConvertFrom(t, i + 1, FragmentAdd(acc, Fragment(<<t[i]>>, TRUE, acc.m)))

\* _convert_statement
convert_statement(stmt, m) ==
  ConvertFrom(stmt, 1, Fragment(<<>>, TRUE, scan_for_functions(m, stmt)))

\* Step 3: the statements in order; the texts and the ledger
RECURSIVE ConvertAll(_, _, _)
ConvertAll(stmts, k, acc) ==
  IF k > Len(stmts) THEN acc
  ELSE With(convert_statement(stmts[k], acc.m), LAMBDA f :
         ConvertAll(stmts, k + 1, [texts |-> Append(acc.texts, f.text), m |-> f.m]))

---------------------------------------------------------------------------
(* _attach_flag_line_numbers *)

\* sorted(): the function names the inputs can hold, in the order of str
WordOrder ==
  <<"AS", "CAST", "CHARINDEX", "CUSTOM_FUNC", "DATE", "FROM", "GETDATE", "INT",
    "LEN", "MEDIAN", "NOW", "SELECT", "SPLIT", "SUBSTRING", "UPPER", "VARCHAR",
    "a", "name", "t", "x">>

Sorted(names) == SelectSeq(WordOrder, LAMBDA n : n \in names)

\* the lines (1-based) of lines on which \b<name>\s*\( is found
RECURSIVE LinesWith(_, _, _, _)
LinesWith(lines, n, name, reason) ==
  IF n > Len(lines) THEN <<>>
  ELSE (IF \E i \in 1..Len(lines[n]) : NameParen(lines[n], i, Upper(name)) # 0
        THEN <<(<<n, reason>>)>> ELSE <<>>)
       \o LinesWith(lines, n + 1, name, reason)

RECURSIVE DerivedUnsupported(_, _, _)
DerivedUnsupported(lines, funcs, k) ==
  IF k > Len(funcs) THEN <<>>
  ELSE LinesWith(lines, 1, funcs[k], NotSupported(funcs[k]))
       \o DerivedUnsupported(lines, funcs, k + 1)

special_to_reason ==
  << <<"MEDIAN", MedianReview>>, <<"STR", CastReview("STR")>>, <<"INT", CastReview("INT")>>,
     <<"FLOAT", CastReview("FLOAT")>>, <<"DATE", CastReview("DATE")>> >>

RECURSIVE DerivedSpecial(_, _, _, _)
DerivedSpecial(original_query, lines, flagged_lines, k) ==
  IF k > Len(special_to_reason) THEN <<>>
  ELSE LET func == special_to_reason[k][1]
           reason == special_to_reason[k][2]
       IN (IF \/ \E j \in 1..Len(flagged_lines) : flagged_lines[j][2] = reason
              \/ \E i \in 1..Len(original_query) : NameParen(original_query, i, func) # 0
           THEN LinesWith(lines, 1, func, reason) ELSE <<>>)
          \o DerivedSpecial(original_query, lines, flagged_lines, k + 1)

\* the first occurrence of every item, in order
RECURSIVE Dedup(_, _)
Dedup(items, k) ==
  IF k > Len(items) THEN <<>>
  ELSE (IF \E j \in 1..(k - 1) : items[j] = items[k] THEN <<>> ELSE <<items[k]>>)
       \o Dedup(items, k + 1)

AttachKeepsUnknownLines(original_query, m) ==
  IF original_query = <<>> THEN m
  ELSE With(SplitLines(original_query), LAMBDA lines :
         [m EXCEPT !.flagged_lines =
            Dedup(m.flagged_lines
                  \o DerivedUnsupported(lines, Sorted(m.unsupported_functions), 1)
                  \o DerivedSpecial(original_query, lines, m.flagged_lines, 1), 1)])
attach_flag_line_numbers(original_query, m) ==
  IF original_query = <<>> THEN m
  ELSE With(SplitLines(original_query), LAMBDA lines :
         [m EXCEPT !.flagged_lines =
            Dedup(SelectSeq(m.flagged_lines, LAMBDA f : f[1] > 0)
                  \o DerivedUnsupported(lines, Sorted(m.unsupported_functions), 1)
                  \o DerivedSpecial(original_query, lines, m.flagged_lines, 1), 1)])

---------------------------------------------------------------------------
(* src/AI_Base/components/sql_parser.py : SQLConverter.convert_query *)

UnableToParse == <<"Unable to parse SQL">>

\* lines 262-266: except Exception as e
AiHandlerReraises(q, m, e) == Raised(m)
AiHandler(q, m, e) ==
  Returned(q.text, add_flagged_statement(m, 0, ErrorMsg(e)), <<<<0, ErrorMsg(e)>>>>, TRUE)

\* lines 256-258
AiSuccessBeforeAttach(m, original_query) ==
  With(attach_flag_line_numbers(original_query, m), LAMBDA a :
    IF m.flagged_lines = <<>> /\ m.unsupported_functions = {}
    THEN add_successful_conversion(a) ELSE a)
AiSuccess(m, original_query) ==
  With(attach_flag_line_numbers(original_query, m), LAMBDA a :
    IF a.flagged_lines = <<>> /\ a.unsupported_functions = {}
    THEN add_successful_conversion(a) ELSE a)

\* _postprocess_query
postprocess_query(query) == sqlparse_format(query)

\* lines 231-266: the call past the guard
AiTry(q, e) ==
  IF e = "preprocess" THEN AiHandler(q, ResetMetrics, e)
  ELSE With(preprocess_with_regex(q.text, ResetMetrics), LAMBDA pre :
    IF e = "parse" THEN AiHandler(q, pre.m, e)
    ELSE With(sqlparse_parse(pre.text), LAMBDA parsed :
      IF Len(parsed) = 0
      THEN Returned(q.text, add_flagged_statement(pre.m, 0, UnableToParse),
                    <<<<0, UnableToParse>>>>, TRUE)
      ELSE IF e = "convert"
      THEN AiHandler(q, scan_for_functions(pre.m, parsed[1]), e)
      ELSE With(ConvertAll(parsed, 1, [texts |-> <<>>, m |-> pre.m]), LAMBDA converted :
        IF e \in {"format", "attribute"} THEN AiHandler(q, converted.m, e)
        ELSE With(AiSuccess(converted.m, q.text), LAMBDA m2 :
          Returned(postprocess_query(JoinLines(converted.texts)), m2,
                   m2.flagged_lines, TRUE)))))

AiRuns == [q \in Accepted, e \in AiFaults |-> AiTry(q, e)]

ai_convert_query(self, q, e) ==
  IF Rejected(q) THEN EarlyReturn(self) ELSE AiRuns[q, e]

---------------------------------------------------------------------------
(* src/main/components/data_cleaner.py : SQLCleaner.  The text is a        *)
(* sequence of characters; \s is a blank, a tab, a line feed or a carriage *)
(* return.                                                                 *)

Space == {" ", "\t", "\n", "\r"}

\* str.replace(old, new) for a one- or two-character old, left to right
RECURSIVE Replace(_, _, _)
Replace(t, old, new) ==
  IF Len(t) < Len(old) THEN t
  ELSE IF SubSeq(t, 1, Len(old)) = old
       THEN new \o Replace(Slice(t, Len(old) + 1, Len(t)), old, new)
       ELSE <<t[1]>> \o Replace(Tail(t), old, new)

\* str.strip() of the cleaner's text
StripSpace(t) ==
  IF \A k \in 1..Len(t) : t[k] \in Space THEN <<>>
  ELSE LET a == CHOOSE j \in 1..Len(t) : t[j] \notin Space /\ \A k \in 1..(j - 1) : t[k] \in Space
           b == CHOOSE j \in 1..Len(t) : t[j] \notin Space /\ \A k \in (j + 1)..Len(t) : t[k] \in Space
       IN SubSeq(t, a, b)

\* whitespace_pattern.sub(' ', line): every run of \s becomes one blank
RECURSIVE whitespace_sub(_)
whitespace_sub(line) ==
  IF line = <<>> THEN <<>>
  ELSE IF line[1] \in Space
       THEN LET j == CHOOSE j \in 2..(Len(line) + 1) :
                       /\ \A k \in 1..(j - 1) : line[k] \in Space
                       /\ (j = Len(line) + 1 \/ line[j] \notin Space)
            IN <<" ">> \o whitespace_sub(Slice(line, j, Len(line)))
       ELSE <<line[1]>> \o whitespace_sub(Tail(line))

\* line 35: [whitespace_pattern.sub(' ', line.strip()) for line in lines]
RECURSIVE NormalizeLines(_)
NormalizeLines(lines) ==
  IF lines = <<>> THEN <<>>
  ELSE <<whitespace_sub(StripSpace(lines[1]))>> \o NormalizeLines(Tail(lines))

\* line 39: [line for line in cleaned.split('\n') if line.strip()]
CleanKeepsEmptyLines(lines) == lines
NonEmptyLines(lines) == SelectSeq(lines, LAMBDA line : StripSpace(line) # <<>>)

\* clean_query.  q is an argument of convert_query's kinds: a str, None or a number
clean_query(q) ==
  IF q.type # "str" \/ q.text = <<>> THEN <<>>
  ELSE With(StripSpace(Replace(Replace(q.text, <<"\r", "\n">>, <<"\n">>), <<"\r">>, <<"\n">>)),
         LAMBDA cleaned :
           With(JoinLines(NormalizeLines(SplitLines(cleaned))), LAMBDA joined :
             JoinLines(NonEmptyLines(SplitLines(joined)))))

\* multiline_comment_pattern.sub('', query): /\*.*?\*/ with re.DOTALL
RECURSIVE RemoveBlockComments(_)
RemoveBlockComments(t) ==
  With(FindTok(t, 1, {"/*"}), LAMBDA a :
    IF a = 0 THEN t
    ELSE With(FindTok(t, a + 1, {"*/"}), LAMBDA b :
           IF b = 0 THEN t
           ELSE Slice(t, 1, a - 1) \o RemoveBlockComments(Slice(t, b + 1, Len(t)))))

\* comment_pattern.sub('', query): --.*$ with re.MULTILINE
RECURSIVE RemoveLineComments(_)
RemoveLineComments(t) ==
  With(FindTok(t, 1, {"--"}), LAMBDA a :
    IF a = 0 THEN t
    ELSE With(FindTok(t, a, {"\n"}), LAMBDA b :
           IF b = 0 THEN Slice(t, 1, a - 1)
           ELSE Slice(t, 1, a - 1) \o RemoveLineComments(Slice(t, b, Len(t)))))

\* extract_comments: the text it returns (the list of comments is not modelled)
extract_comments(query) ==
  IF query = <<>> THEN <<>>
  ELSE StripSpace(RemoveLineComments(RemoveBlockComments(query)))

\* str.split(';')
RECURSIVE SplitSemicolon(_)
SplitSemicolon(t) ==
  With(FindTok(t, 1, {";"}), LAMBDA n :
    IF n = 0 THEN <<t>>
    ELSE <<Slice(t, 1, n - 1)>> \o SplitSemicolon(Slice(t, n + 1, Len(t))))

RECURSIVE StripEach(_)
StripEach(ss) == IF ss = <<>> THEN <<>> ELSE <<StripSpace(ss[1])>> \o StripEach(Tail(ss))

\* split_statements
split_statements(query) ==
  IF query = <<>> THEN <<>>
  ELSE StripEach(NonEmptyLines(SplitSemicolon(extract_comments(query))))

---------------------------------------------------------------------------
(* src/main/flask_app/entry.py : index.  The module's converter object is  *)
(* the one every request uses.                                             *)

\* lines 32-35: the loop; fabric_sql is assigned anew in every turn.  A
\* statement is a non-empty str, so its convert_query call passes the guard;
\* no step of the conversions raises.
RECURSIVE ConvertEach(_, _, _)
ConvertEach(statements, k, acc) ==
  IF k > Len(statements) THEN acc
  ELSE With(MainTry(StrArg(statements[k]), "none"), LAMBDA r :
         ConvertEach(statements, k + 1,
                     [fabric_sql |-> r.text,
                      converted_statements |-> Append(acc.converted_statements, r.text),
                      errors |-> Append(acc.errors, r.flags),
                      self |-> r.self]))

\* the context handed to render_template, and converter.metrics afterwards
Rendered(tableau_sql, fabric_sql, errors, self) ==
  [outcome |-> "rendered", tableau_sql |-> tableau_sql, fabric_sql |-> fabric_sql,
   errors |-> errors, self |-> self]

\* lines 25-35 for a form text that is not blank: the statements, then the loop
PostTry(tableau_sql) ==
  With(split_statements(extract_comments(clean_query(StrArg(tableau_sql)))),
       LAMBDA statements :
         ConvertEach(statements, 1,
                     [fabric_sql |-> <<>>, converted_statements |-> <<>>,
                      errors |-> <<>>, self |-> ConversionMetrics]))

---------------------------------------------------------------------------
(* The state machine *)

NoCall ==
  [outcome |-> "none", text |-> <<>>, metrics |-> ConversionMetrics, flags |-> <<>>,
   self |-> ConversionMetrics, fresh |-> FALSE]

\* SQLConverter.__init__ of either package
Init ==
  /\ converter \in {"main", "ai"}
  /\ metrics = ConversionMetrics
  /\ arg = NoneArg
  /\ fault = "none"
  /\ ret = NoCall

Call(q, e, r) ==
  /\ arg' = q
  /\ fault' = e
  /\ ret' = r
  /\ metrics' = r.self
  /\ UNCHANGED converter

\* src/main: converter.convert_query(q)
MainConvertQuery ==
  /\ converter = "main"
  /\ \E q \in Args, e \in MainFaults :
       Call(q, e, main_convert_query(metrics, q, e))

\* src/AI_Base: converter.convert_query(q)
AiConvertQuery ==
  /\ converter = "ai"
  /\ \E q \in Args, e \in AiFaults :
       Call(q, e, ai_convert_query(metrics, q, e))

Next == MainConvertQuery \/ AiConvertQuery

Spec == Init /\ [][Next]_vars

\* apply_regex_remapping(sql) on its own
RemapInit ==
  /\ converter = "remap"
  /\ metrics = ConversionMetrics
  /\ arg \in {StrArg(t) : t \in RemapInputs}
  /\ fault = "none"
  /\ ret = NoCall

Remap ==
  /\ converter = "remap"
  /\ ret.outcome = "none"
  /\ ret' = With(apply_regex_remapping(arg.text), LAMBDA r :
              [NoCall EXCEPT !.outcome = "returned", !.text = r.text, !.flags = r.flags])
  /\ UNCHANGED <<converter, metrics, arg, fault>>

RemapNext == Remap

SpecRemap == RemapInit /\ [][RemapNext]_vars

\* the first convert_query call of a src/main converter, on a text of several lines
MaxLines == 3

LinePieces ==
  { <<"NOW", "(", "\n", ")">>, <<"IF", "\n", "(", "a", ")">>, <<"MEDIAN", "(", "x", ")">>,
    <<"SPLIT", "(", "a", ",", "'-'", ",", "2", ")">>, <<"{", "FIXED", " ", "a", "}">>,
    <<"\n">>, <<" ">> }

MainCallInit ==
  /\ converter = "main"
  /\ metrics = ConversionMetrics
  /\ arg \in {StrArg(t) : t \in Texts(LinePieces, MaxLines)}
  /\ fault = "none"
  /\ ret = NoCall

MainCall ==
  /\ converter = "main"
  /\ ret.outcome = "none"
  /\ \E e \in MainFaults : Call(arg, e, MainTry(arg, e))

MainCallNext == MainCall

SpecMainCall == MainCallInit /\ [][MainCallNext]_vars

\* _attach_flag_line_numbers(original_query) on a converter of src/AI_Base
\* whose ledger holds the flags and names a conversion has recorded
MaxFlags == 3

AttachFlags ==
  { <<0, MedianReview>>, <<1, MedianReview>>, <<2, CastReview("INT")>>,
    <<0, NotSupported("CUSTOM_FUNC")>>, <<2, UnableToParse>> }

AttachLedgers ==
  { [ConversionMetrics EXCEPT !.total_statements = 1, !.flagged_statements = Len(fl),
                              !.flagged_lines = fl, !.unsupported_functions = un] :
      fl \in UNION {[1..n -> AttachFlags] : n \in 0..MaxFlags},
      un \in SUBSET {"CUSTOM_FUNC"} }

AttachQueries ==
  { <<>>, <<"MEDIAN", "(", "x", ")">>,
    <<"CUSTOM_FUNC", "(", "x", ")", "\n", "MEDIAN", "(", "x", ")">>,
    <<"x", "\n", "INT", "(", "x", ")", " ", "median", "(", "x", ")">>,
    <<"MEDIAN", "\n", "(", "x", ")">>,
    <<"SELECT", " ", "x", "\n", "FROM", " ", "t">> }

AttachInit ==
  /\ converter = "attach"
  /\ metrics \in AttachLedgers
  /\ arg = NoneArg
  /\ fault = "none"
  /\ ret = NoCall

\* self._attach_flag_line_numbers(q): arg keeps q and self.metrics as the call found it
Attach ==
  /\ converter = "attach"
  /\ ret.outcome = "none"
  /\ \E q \in AttachQueries :
       /\ arg' = [type |-> "str", text |-> q, self |-> metrics]
       /\ metrics' = attach_flag_line_numbers(q, metrics)
  /\ ret' = [NoCall EXCEPT !.outcome = "returned"]
  /\ UNCHANGED <<converter, fault>>

AttachNext == Attach

SpecAttach == AttachInit /\ [][AttachNext]_vars

\* SQLFragment objects combined with +, left to right: arg holds the fragments
\* combined so far, ret the fragment the last + returned
MaxFragments == 3

Fragments ==
  {Fragment(t, c, ConversionMetrics) : t \in {<<>>, <<"a">>, <<"b", " ">>}, c \in BOOLEAN}

FragmentInit ==
  /\ converter = "fragment"
  /\ metrics = ConversionMetrics
  /\ \E f \in Fragments : arg = <<f>> /\ ret = f
  /\ fault = "none"

\* ret + b
Add ==
  /\ converter = "fragment"
  /\ Len(arg) < MaxFragments
  /\ \E b \in Fragments :
       /\ arg' = Append(arg, b)
       /\ ret' = FragmentAdd(ret, b)
  /\ UNCHANGED <<converter, metrics, fault>>

FragmentNext == Add

SpecFragment == FragmentInit /\ [][FragmentNext]_vars

\* A ConversionMetrics object and its callers: the counters are public
\* attributes (convert_query assigns total_statements), the rate is read with
\* get_success_rate() and to_dict().  ret keeps the call, the ledger it read
\* and the value it returned.
MaxStatements == 5

MetricsInit ==
  /\ converter = "metrics"
  /\ metrics = ConversionMetrics
  /\ arg = NoneArg
  /\ fault = "none"
  /\ ret = NoCall

\* metrics.total_statements = n
SetTotalStatements ==
  /\ converter = "metrics"
  /\ \E n \in 0..MaxStatements : metrics' = [metrics EXCEPT !.total_statements = n]
  /\ UNCHANGED <<converter, arg, fault, ret>>

\* metrics.add_successful_conversion()
AddSuccessfulConversion ==
  /\ converter = "metrics"
  /\ metrics.successful_conversions < MaxStatements
  /\ metrics' = add_successful_conversion(metrics)
  /\ UNCHANGED <<converter, arg, fault, ret>>

\* metrics.get_success_rate()
GetSuccessRate ==
  /\ converter = "metrics"
  /\ ret' = [outcome |-> "returned", call |-> "get_success_rate", self |-> metrics,
             value |-> get_success_rate(metrics)]
  /\ UNCHANGED <<converter, metrics, arg, fault>>

\* metrics.to_dict()
ToDict ==
  /\ converter = "metrics"
  /\ ret' = [outcome |-> "returned", call |-> "to_dict", self |-> metrics,
             value |-> to_dict(metrics).success_rate]
  /\ UNCHANGED <<converter, metrics, arg, fault>>

MetricsNext == SetTotalStatements \/ AddSuccessfulConversion \/ GetSuccessRate \/ ToDict

SpecMetrics == MetricsInit /\ [][MetricsNext]_vars

\* apply_regex_remapping(sql) on texts whose words hold the rules' names
MaxNames == 3

NamePieces ==
  { <<"B">>, <<"I">>, <<"LOG">>, <<"SUBSTR">>, <<"LOG", "(", "x", ")">>, <<"log", "(", "x", ")">>,
    <<"IN", "(", "x", ")">>, <<"IF", "(", "x", ")">>, <<"IFNULL", "(", "x", ")">>,
    <<"MAKEDATETIME", "(", "x", ")">>, <<"ING", "(", "x", ")">>, <<" ">> }

RenameInit ==
  /\ converter = "remap"
  /\ metrics = ConversionMetrics
  /\ arg \in {StrArg(t) : t \in Texts(NamePieces, MaxNames)}
  /\ fault = "none"
  /\ ret = NoCall

SpecRename == RenameInit /\ [][RemapNext]_vars

\* the first convert_query call of a src/AI_Base converter, on a statement
\* whose function calls stand alone, in a list, under an alias, in a
\* comparison, behind WHERE and inside another call
MaxDepth == 2

WalkNames == {"LOG", "UPPER", "FIND"}

\* x and the calls nested up to depth d
RECURSIVE WalkCalls(_)
WalkCalls(d) ==
  IF d = 0 THEN {<<"x">>}
  ELSE WalkCalls(d - 1)
       \cup {<<n, "(">> \o c \o <<")">> : n \in WalkNames, c \in WalkCalls(d - 1)}

WalkHeads ==
  {<<>>, <<"SELECT", " ">>,
   <<"SELECT", " ", "a", " ", "FROM", " ", "t", " ", "WHERE", " ">>}

WalkTails ==
  {<<>>, <<",", " ", "1">>, <<" ", "AS", " ", "y">>, <<" ", "FROM", " ", "t">>,
   <<" ", ">", " ", "1">>}

WalkInputs ==
  {h \o c \o tl : h \in WalkHeads, c \in WalkCalls(MaxDepth), tl \in WalkTails}

AiCallInit ==
  /\ converter = "ai"
  /\ metrics = ConversionMetrics
  /\ arg \in {StrArg(t) : t \in WalkInputs}
  /\ fault = "none"
  /\ ret = NoCall

AiCall ==
  /\ converter = "ai"
  /\ ret.outcome = "none"
  /\ \E e \in AiFaults : Call(arg, e, AiTry(arg, e))

AiCallNext == AiCall

SpecAiCall == AiCallInit /\ [][AiCallNext]_vars

\* SQLCleaner.clean_query on a raw text, and once more on what it returned.
\* ret keeps the number of calls, the argument of the last one and its result.
MaxChars == 5

Chars == {"a", " ", "\t", "\n", "\r"}

RawTexts == UNION {[1..n -> Chars] : n \in 0..MaxChars}

CleanInit ==
  /\ converter = "cleaner"
  /\ metrics = ConversionMetrics
  /\ arg \in {StrArg(t) : t \in RawTexts} \cup {NoneArg, IntArg}
  /\ fault = "none"
  /\ ret = [outcome |-> "none", calls |-> 0, query |-> NoneArg, text |-> <<>>]

\* cleaner.clean_query(query)
CleanQuery ==
  /\ converter = "cleaner"
  /\ ret.calls = 0
  /\ ret' = [outcome |-> "returned", calls |-> 1, query |-> arg, text |-> clean_query(arg)]
  /\ UNCHANGED <<converter, metrics, arg, fault>>

\* cleaner.clean_query(cleaned), cleaned being the text the first call returned
CleanAgain ==
  /\ converter = "cleaner"
  /\ ret.calls = 1
  /\ ret' = [outcome |-> "returned", calls |-> 2, query |-> StrArg(ret.text),
             text |-> clean_query(StrArg(ret.text))]
  /\ UNCHANGED <<converter, metrics, arg, fault>>

CleanNext == CleanQuery \/ CleanAgain

SpecClean == CleanInit /\ [][CleanNext]_vars

\* convert_query of src/main called by several request threads on the one
\* converter object of the Flask module (entry.py line 11).  self.metrics is a
\* reference: metrics holds the ledger objects allocated so far and the one
\* self.metrics refers to.  Each call reads self.metrics anew at every
\* statement; ret[t] holds the position and the locals of thread t's call and
\* what it returned (the ledger object, and the list object or a new list).
MaxThreads == 2

Threads == 1..MaxThreads

SharedQueries ==
  { <<"NOW", "(", ")">>, <<"MEDIAN", "(", "x", ")">>,
    <<"{", "FIXED", " ", "a", "}", "\n", "MEDIAN", "(", "x", ")">>,
    <<"SELECT", " ", "x">> }

SharedFaults == {"none", "remap"}

Running(pc, text, flags) ==
  [pc |-> pc, outcome |-> "none", text |-> text, flags |-> flags, k |-> 1,
   metrics |-> 0, list |-> 0]

Current == metrics.ledgers[metrics.self]

Store(m) == [metrics EXCEPT !.ledgers[metrics.self] = m]

SharedInit ==
  /\ converter = "shared"
  /\ metrics = [self |-> 1, ledgers |-> <<ConversionMetrics>>]
  /\ arg \in [Threads -> {StrArg(q) : q \in SharedQueries}]
  /\ fault \in [Threads -> SharedFaults]
  /\ ret = [t \in Threads |-> Running("reset", <<>>, <<>>)]

\* line 89: self.metrics = ConversionMetrics()
ResetLedger(t) ==
  /\ ret[t].pc = "reset"
  /\ metrics' = [self |-> Len(metrics.ledgers) + 1,
                 ledgers |-> Append(metrics.ledgers, ConversionMetrics)]
  /\ ret' = [ret EXCEPT ![t].pc = "total"]
  /\ UNCHANGED <<converter, arg, fault>>

\* lines 90-94: self.metrics.total_statements = 1, then the remapping (local)
SetTotal(t) ==
  /\ ret[t].pc = "total"
  /\ metrics' = Store([Current EXCEPT !.total_statements = 1])
  /\ ret' = [ret EXCEPT ![t] =
               IF fault[t] = "remap" THEN Running("handler", <<>>, <<>>)
               ELSE With(apply_regex_remapping(arg[t].text), LAMBDA r :
                      Running("flags", MainFormat(r.text, fault[t]), r.flags))]
  /\ UNCHANGED <<converter, arg, fault>>

\* lines 95-96: one turn of the loop, self.metrics.add_flagged_statement(ln, reason)
RecordFlag(t) ==
  /\ ret[t].pc = "flags"
  /\ ret[t].k <= Len(ret[t].flags)
  /\ metrics' = Store(add_flagged_statement(Current, ret[t].flags[ret[t].k][1],
                                            ret[t].flags[ret[t].k][2]))
  /\ ret' = [ret EXCEPT ![t].k = @ + 1]
  /\ UNCHANGED <<converter, arg, fault>>

\* lines 113-115, the loop being over
DetermineSuccess(t) ==
  /\ ret[t].pc = "flags"
  /\ ret[t].k > Len(ret[t].flags)
  /\ metrics' = Store(MainSuccess(Current))
  /\ ret' = [ret EXCEPT ![t].pc = "return"]
  /\ UNCHANGED <<converter, arg, fault>>

\* line 118: return fabric_sql, self.metrics, self.metrics.flagged_lines
Return(t) ==
  /\ ret[t].pc = "return"
  /\ ret' = [ret EXCEPT ![t].pc = "done", ![t].outcome = "returned",
                        ![t].metrics = metrics.self, ![t].list = metrics.self]
  /\ UNCHANGED <<converter, metrics, arg, fault>>

\* lines 120-123: the handler; the returned list is a new one
Handler(t) ==
  /\ ret[t].pc = "handler"
  /\ metrics' = Store(add_flagged_statement(Current, 0, ErrorMsg(fault[t])))
  /\ ret' = [ret EXCEPT ![t].pc = "done", ![t].outcome = "returned",
                        ![t].text = arg[t].text, ![t].flags = <<<<0, ErrorMsg(fault[t])>>>>,
                        ![t].metrics = metrics.self, ![t].list = 0]
  /\ UNCHANGED <<converter, arg, fault>>

SharedNext ==
  \E t \in Threads :
    \/ ResetLedger(t) \/ SetTotal(t) \/ RecordFlag(t) \/ DetermineSuccess(t)
    \/ Return(t) \/ Handler(t)

SpecShared == SharedInit /\ [][SharedNext]_vars

\* requests to the Flask front end, one after the other.  arg is the form
\* text of the last POST, ret the context the page template was given.
MaxPosted == 3

PostPieces ==
  { <<"SELECT", " ", "NOW", "(", ")", ";">>,
    <<"SELECT", " ", "MEDIAN", "(", "x", ")", ";", "\n">>,
    <<"SELECT", " ", "x">>, <<"--", " ", "c", ";", "\n">>, <<" ">> }

PostTexts == Texts(PostPieces, MaxPosted)

\* what lines 25-35 do depends on the form text only: one entry per text
PostRuns == [text \in PostTexts |-> PostTry(StripSpace(text))]

\* index for a POST with this form text; with no statement to convert the
\* converter's ledger stays the one it was
index_post(form_text, self) ==
  With(StripSpace(form_text), LAMBDA tableau_sql :
    IF tableau_sql = <<>> THEN Rendered(tableau_sql, <<>>, <<>>, self)
    ELSE With(PostRuns[form_text], LAMBDA done :
           Rendered(tableau_sql, done.fabric_sql, done.errors,
                    IF done.converted_statements = <<>> THEN self ELSE done.self)))

FlaskInit ==
  /\ converter = "flask"
  /\ metrics = ConversionMetrics
  /\ arg = StrArg(<<>>)
  /\ fault = "none"
  /\ ret = [outcome |-> "none", tableau_sql |-> <<>>, fabric_sql |-> <<>>,
            errors |-> <<>>, self |-> ConversionMetrics]

\* GET /
IndexGet ==
  /\ converter = "flask"
  /\ ret' = Rendered(<<>>, <<>>, <<>>, metrics)
  /\ UNCHANGED <<converter, metrics, arg, fault>>

\* POST / with tableau_sql = text
IndexPost ==
  /\ converter = "flask"
  /\ \E text \in PostTexts \cup {<<>>} :
       /\ arg' = StrArg(text)
       /\ ret' = index_post(text, metrics)
       /\ metrics' = ret'.self
  /\ UNCHANGED <<converter, fault>>

FlaskNext == IndexGet \/ IndexPost

SpecFlask == FlaskInit /\ [][FlaskNext]_vars

\* the three lookups of a TableauFabricMappings object, called with a name
\* that is a str (one word or the empty string), None or a number
LookupNames ==
  DOMAIN _BASE_FUNCTION_MAPPINGS \cup DOMAIN UpperOf
  \cup {"CUSTOM_FUNC", "PERCENTILE_CONT", "GETDATE", "NONEXISTENT_FUNCTION"}

LookupArgs == {StrArg(<<n>>) : n \in LookupNames} \cup {StrArg(<<>>), NoneArg, IntArg}

\* the str a name argument holds
NameOf(a) == IF a.text = <<>> THEN "" ELSE a.text[1]

LookupReturned(call, value) == [outcome |-> "returned", call |-> call, value |-> value]

\* name.upper() on an object that has no such method: AttributeError
LookupRaised(call) == [outcome |-> "raised", call |-> call, value |-> None]

\* a lookup evaluates name.upper() first
Lookup(call, a, value(_)) ==
  IF a.type = "str" THEN LookupReturned(call, value(NameOf(a))) ELSE LookupRaised(call)

LookupInit ==
  /\ converter = "mappings"
  /\ metrics = ConversionMetrics
  /\ arg = NoneArg
  /\ fault = "none"
  /\ ret = NoCall

\* mappings.get_fabric_function(name)
GetFabricFunction ==
  /\ converter = "mappings"
  /\ \E a \in LookupArgs :
       /\ arg' = a
       /\ ret' = Lookup("get_fabric_function", a, get_fabric_function)
  /\ UNCHANGED <<converter, metrics, fault>>

\* mappings.is_mapped_function(name)
IsMappedFunction ==
  /\ converter = "mappings"
  /\ \E a \in LookupArgs :
       /\ arg' = a
       /\ ret' = Lookup("is_mapped_function", a, is_mapped_function)
  /\ UNCHANGED <<converter, metrics, fault>>

\* mappings.requires_special_handling(name)
RequiresSpecialHandling ==
  /\ converter = "mappings"
  /\ \E a \in LookupArgs :
       /\ arg' = a
       /\ ret' = Lookup("requires_special_handling", a, requires_special_handling)
  /\ UNCHANGED <<converter, metrics, fault>>

LookupNext == GetFabricFunction \/ IsMappedFunction \/ RequiresSpecialHandling

SpecLookup == LookupInit /\ [][LookupNext]_vars

---------------------------------------------------------------------------
(* Vocabulary of the properties *)

\* the tokens u stand in t, next to one another
Contains(t, u) == \E a \in 1..(Len(t) - Len(u) + 1) : SubSeq(t, a, a + Len(u) - 1) = u

\* a flag with this reason is among flags
Flagged(flags, reason) == \E k \in 1..Len(flags) : flags[k][2] = reason

\* some "(" of t is never closed
Unbalanced(t) == \E p \in 1..Len(t) : t[p] = "(" /\ MatchParen(t, p) = 0

\* a call has completed / a call on a non-empty string has completed
Completed == ret.outcome # "none"
CompletedOnText == Completed /\ ~Rejected(arg)

BothEmpty(m) == m.flagged_lines = <<>> /\ m.unsupported_functions = {}

---------------------------------------------------------------------------
(* Properties of convert_query *)

\* C1: when convert_query completes for a non-empty string, on the normal path
\* and on every error path of either converter, successful_conversions is 1 if
\* flagged_lines and unsupported_functions are both empty and 0 otherwise.
C1_SuccessIsDerived ==
  (converter \in {"main", "ai"} /\ CompletedOnText) =>
    ret.metrics.successful_conversions = (IF BothEmpty(ret.metrics) THEN 1 ELSE 0)

\* a src/main call that returned normally with a flag and no success
C1_FlaggedCallNotSuccessful ==
  /\ converter = "main" /\ CompletedOnText /\ fault = "none"
  /\ ret.metrics.flagged_lines # <<>>
  /\ ret.metrics.successful_conversions = 0

\* the ledger the same call returns on a converter that has served no call
OnNewConverter ==
  IF converter = "main" THEN main_convert_query(ConversionMetrics, arg, fault).metrics
  ELSE ai_convert_query(ConversionMetrics, arg, fault).metrics

\* C2: after any sequence of calls, every call, also one whose input is empty
\* or not a string, returns a ledger that carries no total_statements, counts,
\* flags or unsupported names of an earlier call on the same converter.
C2_LedgerIsFresh ==
  (converter \in {"main", "ai"} /\ Completed) => ret.metrics = OnNewConverter

\* C3: for a function f that is no key of the mapping table, src/main's
\* convert_query leaves the call f(x) in the output text and returns with f in
\* unsupported_functions, so the call is no successful conversion.
C3_UnmappedIsRecorded ==
  (converter = "main" /\ CompletedOnText /\ fault = "none") =>
    \A i \in 1..Len(arg.text) :
      (FunctionAt(arg.text, i) /\ ~is_mapped_function(arg.text[i])
       /\ Upper(arg.text[i]) \notin allowed_fabric) =>
        /\ Contains(ret.text, SubSeq(arg.text, i, FunctionEnd(arg.text, i)))
        /\ arg.text[i] \in ret.metrics.unsupported_functions
        /\ ret.metrics.successful_conversions = 0

C6_UnbalancedIsRejected ==
  (converter = "main" /\ CompletedOnText /\ Unbalanced(arg.text)) =>
    /\ ret.text = arg.text
    /\ Len(ret.flags) = 1 /\ ret.flags[1][1] = 0
    /\ ret.metrics.total_statements = 1
    /\ ret.metrics.successful_conversions = 0

\* the only call of t is one NOW()
OnlyCallIsNow(t) ==
  /\ \E i \in 1..Len(t) : re_now(t, i) # 0
  /\ Cardinality({k \in 1..Len(t) : t[k] = "("}) = 1

\* C16: src/main's convert_query of a query whose only call is one NOW()
\* returns text with GETDATE(), function_conversions['DATE'] = 1 with every
\* other category 0, and no flag: the counts record the rewrites performed.
C16_NowIsCountedAsDate ==
  (converter = "main" /\ CompletedOnText /\ fault = "none" /\ OnlyCallIsNow(arg.text)) =>
    /\ Contains(ret.text, <<"GETDATE", "(", ")">>)
    /\ ret.metrics.function_conversions = [c \in Categories |-> IF c = "DATE" THEN 1 ELSE 0]
    /\ ret.flags = <<>>

\* the function or pattern a reason of remap names is found on the line
FoundOnLine(line, reason) ==
  \E i \in 1..Len(line) :
    CASE reason = MedianReason -> NameParen(line, i, "MEDIAN") # 0
      [] reason = SplitReason -> NameParen(line, i, "SPLIT") # 0
      [] reason = LodReason -> re_lod(line, i) # 0
      [] OTHER -> FALSE

\* C17: on normal completion of src/main's convert_query every returned flag
\* (n, reason) has n >= 1 and line n of the original input holds the flagged
\* function or pattern, also when an earlier rewrite matched text across a
\* line break and changed the number of lines.
C17_FlagNamesItsLine ==
  (converter = "main" /\ CompletedOnText /\ fault = "none") =>
    \A k \in 1..Len(ret.flags) :
      /\ ret.flags[k][1] >= 1
      /\ ret.flags[k][1] <= Len(SplitLines(arg.text))
      /\ FoundOnLine(SplitLines(arg.text)[ret.flags[k][1]], ret.flags[k][2])

---------------------------------------------------------------------------
(* Properties of RegexRemapper.remap *)

Remapped == converter = "remap" /\ ret.outcome = "returned"

CastNames == {"STR", "INT", "FLOAT", "DATE"}

\* the call at i is NAME ( argument ) with its own closing parenthesis, and
\* the argument holds text and no call of the CAST family
CastCall(t, i) ==
  /\ \E name \in CastNames : NameParen(t, i, name) # 0
  /\ FunctionEnd(t, i) # 0
  /\ Strip(SubSeq(t, SkipWs(t, i + 1) + 1, FunctionEnd(t, i) - 1)) # <<>>
  /\ \A k \in (i + 1)..FunctionEnd(t, i) : Upper(t[k]) \notin CastNames

CastArgument(t, i) == Strip(SubSeq(t, SkipWs(t, i + 1) + 1, FunctionEnd(t, i) - 1))

CastType(name) == IF name = "STR" THEN <<"VARCHAR", "(", varchar_default_len, ")">> ELSE <<name>>

\* C4: the STR/INT/FLOAT/DATE rules fail closed: a call is rewritten to
\* CAST(expr AS TYPE) with expr the call's complete argument, or it is left as
\* the original text and a flag is recorded, also when the argument holds
\* parentheses as in INT(LEN(x)).
C4_CastFailsClosed ==
  Remapped =>
    \A i \in 1..Len(arg.text) :
      CastCall(arg.text, i) =>
        \/ Contains(ret.text, Cast(CastArgument(arg.text, i), CastType(Upper(arg.text[i]))))
        \/ /\ Contains(ret.text, SubSeq(arg.text, i, FunctionEnd(arg.text, i)))
           /\ ret.flags # <<>>

\* the SPLIT call that starts at i, as the rule reads it
SplitCall(t, i) == IsWord(t[i]) /\ re_split(t, i) # 0

\* C7: SPLIT(value, 'delim', n) is rewritten only when n = 1, to
\* SUBSTRING(value, 1, CHARINDEX('delim', value) - 1), and then without a flag;
\* for any other n the call stays in the output and a 'requires manual
\* rewrite' flag is recorded.
C7_SplitOnlyFirst ==
  Remapped =>
    /\ \A i \in 1..Len(arg.text) :
         SplitCall(arg.text, i) =>
           IF SplitIdx(arg.text, i) = "1"
           THEN Contains(ret.text, SplitFirst(ValueGroup(arg.text, i, "SPLIT"),
                                              SplitDelim(arg.text, i)))
           ELSE /\ Contains(ret.text, SubSeq(arg.text, i, re_split(arg.text, i)))
                /\ Flagged(ret.flags, SplitReason)
    /\ (\A i \in 1..Len(arg.text) :
          SplitCall(arg.text, i) => SplitIdx(arg.text, i) = "1")
       => ~Flagged(ret.flags, SplitReason)

\* the MEDIAN call that starts at i: the name, any whitespace, ( argument )
MedianCall(t, i) == IsWord(t[i]) /\ re_median(t, i) # 0

\* C8: MEDIAN(expr) is never rewritten, and a MEDIAN call of the input,
\* however it is laid out across lines, produces a flag whose reason names the
\* PERCENTILE_CONT(0.5) WITHIN GROUP rewrite.
C8_MedianAlwaysFlagged ==
  Remapped =>
    /\ ~Contains(ret.text, <<"PERCENTILE_CONT">>)
    /\ (\E i \in 1..Len(arg.text) : MedianCall(arg.text, i))
       => Flagged(ret.flags, MedianReason)

\* C9: an LOD marker of the input, { then FIXED, INCLUDE or EXCLUDE in any
\* letter case after any whitespace, produces a 'not supported' flag: remap
\* returns no empty flag list for such an input.
C9_LodAlwaysFlagged ==
  Remapped =>
    ((\E i \in 1..Len(arg.text) : re_lod(arg.text, i) # 0)
     => Flagged(ret.flags, LodReason))

\* the LOD expression that starts at i, to its closing brace
LodEnd(t, i) == IF re_lod(t, i) = 0 THEN 0 ELSE FindTok(t, i, {"}"})

\* C10: the text of a construct remap flags instead of converting (a MEDIAN
\* call with its argument, a SPLIT call with an index other than 1, an LOD
\* expression with the text between its braces) stands unmodified in the
\* output: no other rule alters text inside it.
C10_FlaggedTextPreserved ==
  Remapped =>
    \A i \in 1..Len(arg.text) :
      /\ (Flagged(ret.flags, MedianReason) /\ MedianCall(arg.text, i))
         => Contains(ret.text, SubSeq(arg.text, i, re_median(arg.text, i)))
      /\ (Flagged(ret.flags, SplitReason) /\ SplitCall(arg.text, i)
          /\ SplitIdx(arg.text, i) # "1")
         => Contains(ret.text, SubSeq(arg.text, i, re_split(arg.text, i)))
      /\ (Flagged(ret.flags, LodReason) /\ LodEnd(arg.text, i) # 0)
         => Contains(ret.text, SubSeq(arg.text, i, LodEnd(arg.text, i)))

---------------------------------------------------------------------------
(* Properties of the rule set of RegexRemapper.remap *)

PredicateNames == {"SPLIT", "STARTSWITH", "ENDSWITH", "CONTAINS", "FIND"}

\* C11: no recognised construct passes through silently: a call to SPLIT,
\* STARTSWITH, ENDSWITH, CONTAINS or FIND, whatever the shape of its arguments,
\* is rewritten to its target form or a flag is recorded for it.
C11_NoSilentPassThrough ==
  (Remapped /\ arg.text \in Texts(PredicatePieces, MaxCalls)) =>
    \A name \in PredicateNames :
      (\E i \in 1..Len(ret.text) : NameParen(ret.text, i, name) # 0) => ret.flags # <<>>

\* the rules that replace a function name by another
RenameRules ==
  {"re_if", "re_ifnull", "re_now", "re_today", "re_length", "re_substr", "re_makedate",
   "re_makedatetime", "re_ln", "re_log"}

\* C12: the three normalizations (// to --, TRUE/FALSE to 1/0, [field] to
\* field) are applied before any function-name rule, so a function rule sees
\* normalized text: no call a rename rule matches is left in the output, also
\* when the name or the argument was written in brackets.
C12_RenamesSeeNormalizedText ==
  Remapped => \A rule \in RenameRules : ~Search(rule, ret.text)

\* the function name a rename rule looks for
RuleName ==
  [rule \in RenameRules |->
     CASE rule = "re_if" -> "IF" [] rule = "re_ifnull" -> "IFNULL" [] rule = "re_now" -> "NOW"
       [] rule = "re_today" -> "TODAY" [] rule = "re_length" -> "LENGTH"
       [] rule = "re_substr" -> "SUBSTR" [] rule = "re_makedate" -> "MAKEDATE"
       [] rule = "re_makedatetime" -> "MAKEDATETIME" [] rule = "re_ln" -> "LN"
       [] rule = "re_log" -> "LOG"]

\* the word at i is name in some letter case, and no part of a longer word
WholeName(t, i, name) ==
  /\ Upper(t[i]) = name
  /\ (i = 1 \/ t[i - 1] \in Punct \cup Literals)
  /\ (i = Len(t) \/ t[i + 1] \in Punct \cup Literals)

PlainRenames == {"NOW", "MAKEDATE", "MAKEDATETIME", "LENGTH", "SUBSTR", "IFNULL", "ZN", "LN", "LOG"}

\* the call f(x), or f() for NOW, stands at i
PlainCall(t, i, f) ==
  /\ IsWord(t[i]) /\ t[i] = f /\ Boundary(t, i)
  /\ IF f = "NOW" THEN SubSeq(t, i + 1, i + 2) = <<"(", ")">>
     ELSE SubSeq(t, i + 1, i + 3) = <<"(", "x", ")">>

PlainArguments(f) == IF f = "NOW" THEN <<"(", ")">> ELSE <<"(", "x", ")">>

\* C14: the translations agree with the mapping table: for a plain rename
\* f -> g of the table, converting f(x) once yields g(x); LN(x) becomes LOG(x)
\* and LOG(x) becomes LOG10(x).
C14_RenamedAsTheTableSays ==
  Remapped =>
    \A f \in PlainRenames : \A i \in 1..Len(arg.text) :
      (i + Len(PlainArguments(f)) <= Len(arg.text) /\ PlainCall(arg.text, i, f)) =>
        Contains(ret.text, get_fabric_function(f) \o PlainArguments(f))

\* C15: converting converted text again changes nothing: for an input built
\* from constructs that are rewritten without a flag, nested calls and
\* bracketed identifiers included, remap(remap(q)) = remap(q) and the second
\* pass adds no flag.
C15_SecondPassChangesNothing ==
  (Remapped /\ arg.text \in IdempotentInputs /\ ret.flags = <<>>) =>
    remap(ret.text) = [text |-> ret.text, flags |-> <<>>]

---------------------------------------------------------------------------
(* Properties of _attach_flag_line_numbers *)

Attached == converter = "attach" /\ ret.outcome = "returned" /\ arg.text # <<>>

\* the entries that carried a line number before the call, in their order
NumberedBefore == SelectSeq(arg.self.flagged_lines, LAMBDA f : f[1] > 0)

FirstIndex(items, x) == CHOOSE k \in 1..Len(items) : items[k] = x /\ \A j \in 1..(k - 1) : items[j] # x

\* line n of the text matches \b<name>\s*\( for the function the reason is about
DerivedFrom(lines, names, n, reason) ==
  /\ n \in 1..Len(lines)
  /\ \/ \E f \in names :
          reason = NotSupported(f) /\ \E i \in 1..Len(lines[n]) : NameParen(lines[n], i, Upper(f)) # 0
     \/ \E k \in 1..Len(special_to_reason) :
          /\ reason = special_to_reason[k][2]
          /\ \E i \in 1..Len(lines[n]) : NameParen(lines[n], i, special_to_reason[k][1]) # 0

\* C18: after _attach_flag_line_numbers on a non-empty query, flagged_lines
\* holds no entry with line 0 and no (line, reason) pair twice; the entries
\* that carried a line > 0 are all kept, in their order and ahead of the
\* derived ones, and a derived entry (n, reason) names a line n of the
\* original text that matches the word-boundary pattern of its function.
C18_AttachedFlags ==
  Attached =>
    LET out == metrics.flagged_lines
        kept == Cardinality({NumberedBefore[j] : j \in 1..Len(NumberedBefore)})
    IN /\ \A k \in 1..Len(out) : out[k][1] # 0
       /\ \A j, k \in 1..Len(out) : out[j] = out[k] => j = k
       /\ \A j \in 1..Len(NumberedBefore) : \E k \in 1..kept : out[k] = NumberedBefore[j]
       /\ kept <= Len(out)
       /\ \A j, k \in 1..kept :
            j < k => FirstIndex(NumberedBefore, out[j]) < FirstIndex(NumberedBefore, out[k])
       /\ \A k \in (kept + 1)..Len(out) :
            DerivedFrom(SplitLines(arg.text), arg.self.unsupported_functions, out[k][1], out[k][2])

\* a ledger with an unknown-line entry and a numbered one, after the call: the
\* numbered entry leads, the derived entries follow
C18_UnknownLineReplaced ==
  /\ Attached
  /\ arg.self.flagged_lines = <<(<<0, MedianReview>>), (<<2, UnableToParse>>), (<<0, MedianReview>>)>>
  /\ arg.self.unsupported_functions = {"CUSTOM_FUNC"}
  /\ metrics.flagged_lines =
       <<(<<2, UnableToParse>>), (<<1, NotSupported("CUSTOM_FUNC")>>), (<<2, MedianReview>>)>>

---------------------------------------------------------------------------
(* Properties of SQLFragment *)

\* C19: for fragments a and b, (a + b).is_converted = a.is_converted and
\* b.is_converted, and (a + b).content is a.content followed by b.content; so
\* a fold of fragments from left to right is converted only if every fragment
\* is, whatever the order.
C19_ConcatenationPoisons ==
  converter = "fragment" =>
    /\ ret.text = Flatten([k \in 1..Len(arg) |-> arg[k].text], Len(arg))
    /\ ret.is_converted = (\A k \in 1..Len(arg) : arg[k].is_converted)

\* a converted fragment + an unconverted one: unconverted
C19_ConvertedPlusUnconverted ==
  /\ converter = "fragment"
  /\ Len(arg) = 2 /\ arg[1].is_converted /\ ~arg[2].is_converted
  /\ arg[1].text = <<"a">> /\ arg[2].text = <<"b", " ">>
  /\ ret.text = <<"a", "b", " ">> /\ ~ret.is_converted

---------------------------------------------------------------------------
(* Properties of ConversionMetrics *)

\* C20: get_success_rate, and the success_rate field of to_dict, is
\* successful_conversions / total_statements * 100 when total_statements > 0,
\* and 0 when total_statements = 0.
C20_SuccessRate ==
  (converter = "metrics" /\ ret.outcome = "returned") =>
    /\ ret.value.den > 0
    /\ ret.self.total_statements > 0 =>
         ret.value.num * ret.self.total_statements
           = ret.self.successful_conversions * 100 * ret.value.den
    /\ ret.self.total_statements = 0 => ret.value.num = 0

\* one success in three statements read through to_dict: 100/3
C20_OneInThree ==
  /\ converter = "metrics" /\ ret.outcome = "returned" /\ ret.call = "to_dict"
  /\ ret.self.total_statements = 3 /\ ret.self.successful_conversions = 1
  /\ ret.value = [num |-> 100, den |-> 3]

\* C21: the lookups of the mapping table never raise: called with the empty
\* string, None or a number they return "not found" (None / False); for a str
\* name the answer does not depend on the letter case, and is_mapped_function
\* is true exactly when get_fabric_function is not None.
NotFound(r) ==
  /\ r.outcome = "returned"
  /\ IF r.call = "get_fabric_function" THEN r.value = None ELSE r.value = FALSE

C21_LookupsHaveNoErrorOutcome ==
  converter = "mappings" /\ ret.outcome # "none" =>
    /\ ret.outcome = "returned"
    /\ (arg.type # "str" \/ arg.text = <<>>) => NotFound(ret)
    /\ arg.type = "str" =>
         /\ ret = Lookup(ret.call, StrArg(<<Upper(NameOf(arg))>>), 
                         LAMBDA n : CASE ret.call = "get_fabric_function" -> get_fabric_function(n)
                                      [] ret.call = "is_mapped_function" -> is_mapped_function(n)
                                      [] OTHER -> requires_special_handling(n))
         /\ is_mapped_function(NameOf(arg)) <=> get_fabric_function(NameOf(arg)) # None

\* C22: the conversion walk of src/AI_Base handles every function call of the
\* statement: the calls handed to _convert_function are the calls the pre-scan
\* finds, so no call of a mapped function whose Fabric name differs (a simple
\* rename) is left in the returned text, wherever the call stands.
SimpleRename(name) ==
  /\ is_mapped_function(name) /\ ~requires_special_handling(name)
  /\ get_fabric_function(name) # <<Upper(name)>>

\* the statements the walk is given
WalkedStatements == sqlparse_parse(preprocess_with_regex(arg.text, ResetMetrics).text)

C22_WalkReachesEveryFunction ==
  converter = "ai" /\ CompletedOnText /\ fault = "none" =>
    /\ \A n \in 1..Len(WalkedStatements) : \A k \in 1..Len(WalkedStatements[n]) :
         FunctionAt(WalkedStatements[n], k) => Direct(WalkedStatements[n], k)
    /\ \A k \in 1..Len(ret.text) : FunctionAt(ret.text, k) => ~SimpleRename(ret.text[k])

\* C23: for every string, clean_query returns a text in normal form - no
\* whitespace at either end of the text or of a line, no two whitespace
\* characters in a row, no carriage return, no empty line - and cleaning a
\* cleaned text changes nothing.
NormalForm(t) ==
  /\ \A k \in 1..Len(t) : t[k] \in Space => t[k] \in {" ", "\n"}
  /\ t # <<>> => t[1] \notin Space /\ t[Len(t)] \notin Space
  /\ \A k \in 1..(Len(t) - 1) : ~(t[k] \in Space /\ t[k + 1] \in Space)

C23_CleanedIsNormalAndStable ==
  converter = "cleaner" /\ ret.calls > 0 /\ arg.type = "str" =>
    /\ NormalForm(ret.text)
    /\ ret.calls = 2 => ret.text = ret.query.text

C23_CleanedTwice ==
  /\ converter = "cleaner" /\ ret.calls = 2
  /\ \E k \in 1..Len(arg.text) : arg.text[k] = "\r"
  /\ \E k \in 1..(Len(arg.text) - 1) : arg.text[k] = "\n" /\ arg.text[k + 1] = "\n"
  /\ ret.text = <<"a", "\n", "a">>

\* C24: line attribution in src/AI_Base loses no flag: every reason the rewrite
\* passes recorded with line 0 has an entry in the final flagged_lines, so a
\* call during which a flag was raised does not end with an empty flag list
\* and successful_conversions = 1.
Parsed(q) == sqlparse_parse(preprocess_with_regex(q.text, ResetMetrics).text)

\* the ledger when Step 3 is done, before _attach_flag_line_numbers
BeforeAttribution(q) ==
  ConvertAll(Parsed(q), 1,
             [texts |-> <<>>, m |-> preprocess_with_regex(q.text, ResetMetrics).m]).m

NormalCompletion == CompletedOnText /\ fault = "none" /\ Parsed(arg) # <<>>

\* an entry for the construct of reason is among flags; the CAST call that
\* the pre-pass wrote for INT(x) or STR(x) is the construct of the INT / STR entry
Represented(flags, reason) ==
  \/ Flagged(flags, reason)
  \/ /\ reason = NotSupported("CAST")
     /\ \E n \in {"STR", "INT", "FLOAT", "DATE"} : Flagged(flags, CastReview(n))

C24_NoFlagLostByAttribution ==
  converter = "ai" /\ NormalCompletion =>
    With(BeforeAttribution(arg).flagged_lines, LAMBDA raised :
      /\ \A k \in 1..Len(raised) : Represented(ret.metrics.flagged_lines, raised[k][2])
      /\ raised # <<>> =>
           ~(ret.flags = <<>> /\ ret.metrics.successful_conversions = 1))

\* C26: when convert_query of src/AI_Base returns, metrics.flagged_statements
\* is the number of entries of metrics.flagged_lines.
C26_CounterIsListLength ==
  converter = "ai" /\ ret.outcome = "returned" =>
    ret.metrics.flagged_statements = Len(ret.metrics.flagged_lines)

\* C27: on every return path of convert_query, after any earlier calls on the
\* same converter, the returned flag list has the entries of the flagged_lines
\* of the returned metrics object.
C27_ReturnedFlagsAreTheLedgers ==
  ret.outcome = "returned" => ret.flags = ret.metrics.flagged_lines

\* C28: a name the regex pre-pass of src/AI_Base wrote as Fabric syntax is
\* never put into metrics.unsupported_functions by the tokenizer pass.
PrepassTargets ==
  {"GETDATE", "IIF", "SUBSTRING", "DATEFROMPARTS", "DATETIMEFROMPARTS", "LOG10",
   "CAST", "CHARINDEX"}

C28_TargetNamesAreSupported ==
  converter = "ai" /\ Completed =>
    ret.metrics.unsupported_functions \cap PrepassTargets = {}

\* C25: two convert_query calls that run at the same time on one converter
\* are isolated: when both have returned, the metrics object and the flag list
\* each call got hold exactly the counts and flags of its own input, as a call
\* running alone returns them.
ReturnedMetrics(t) == metrics.ledgers[ret[t].metrics]

ReturnedFlags(t) ==
  IF ret[t].list = 0 THEN ret[t].flags ELSE metrics.ledgers[ret[t].list].flagged_lines

C25_ConcurrentCallsAreIsolated ==
  converter = "shared" /\ (\A t \in Threads : ret[t].pc = "done") =>
    \A t \in Threads :
      With(MainTry(arg[t], fault[t]), LAMBDA alone :
        /\ ReturnedMetrics(t) = alone.metrics
        /\ ReturnedFlags(t) = alone.flags)

\* C29: the flag list convert_query of src/main returns holds no (line, reason)
\* pair twice.
NoDuplicates(items) ==
  \A j, k \in 1..Len(items) : items[j] = items[k] => j = k

C29_ReturnedFlagsAreDistinct ==
  converter = "main" /\ ret.outcome = "returned" => NoDuplicates(ret.flags)

\* C30: for a POST whose text holds several statements separated by
\* semicolons, the fabric_sql given to the page template holds the conversion
\* of every statement, in the order of submission.
Posted == converter = "flask" /\ ret.outcome = "rendered" /\ ret.tableau_sql # <<>>

\* the submitted statements and their conversions
Submitted == split_statements(extract_comments(clean_query(StrArg(ret.tableau_sql))))

Conversion(k) == MainTry(StrArg(Submitted[k]), fault).text

\* the conversions from the k-th on stand in t from position p on, one after the other
RECURSIVE InOrder(_, _, _)
InOrder(t, k, p) ==
  IF k > Len(Submitted) THEN TRUE
  ELSE \E a \in p..(Len(t) - Len(Conversion(k)) + 1) :
         /\ SubSeq(t, a, a + Len(Conversion(k)) - 1) = Conversion(k)
         /\ InOrder(t, k + 1, a + Len(Conversion(k)))

C30_PageShowsEveryStatement == Posted => InOrder(ret.fabric_sql, 1, 1)

====
